---- MODULE Spec2Model ----
(***************************************************************************)
(* The ahoy daemon: startup of the listener on the well-known socket path, *)
(* the accept loop, and one connection handler task per accepted           *)
(* connection, running on the tokio runtime that main() builds.            *)
(*                                                                         *)
(* A connection c carries the lines its client wrote (sent[c]); the        *)
(* handler reads them oldest first, decodes each and calls the blocking    *)
(* platform notifier for every line that decodes.                          *)
(*                                                                         *)
(* Further specifications share the module, each over variables of its     *)
(* own that the others leave alone:                                        *)
(*   StartSpec  several daemon processes running the head of server::run   *)
(*              (exists check, remove, bind) against one socket path       *)
(*   SendSpec   one invocation of client::send::run                        *)
(*   CodecSpec  serde_json's encoding and decoding of a Notification       *)
(*   NotifySpec one connection handler over the notifier of each build     *)
(*              target                                                     *)
(*   InstallSpec install::claude's install, uninstall and is_installed on  *)
(*              one Claude settings file                                   *)
(*   PromptSpec send::extract_last_prompt on one transcript file           *)
(*   TruncSpec  the truncation steps of build_from_claude_stdin_reader     *)
(***************************************************************************)
EXTENDS Naturals, Sequences, FiniteSets

\* Bounds of the model.
MaxConns == 2      \* connections a run opens
MaxRecs == 2       \* lines written over all connections of a run
MaxWorkers == 2    \* worker threads of the runtime (the host's CPU count)
MaxDaemons == 2    \* daemon processes started against the same socket path
MaxStream == 3     \* lines on the connection NotifySpec follows
MaxLines == 2      \* lines of the transcript PromptSpec reads
MaxBytes == 102    \* bytes of the text TruncSpec truncates
MaxEntries == 3    \* entries of hooks.Stop and hooks.Notification together
                   \* in the settings file InstallSpec starts from

Conns == 1..MaxConns
Daemons == 1..MaxDaemons

\* What a client can put on the wire as one newline-terminated line:
\*   "valid"   UTF-8 text that deserialises into a Notification
\*   "badjson" UTF-8 text that serde_json rejects for Notification
\*   "badutf8" bytes that are not UTF-8
LineKinds == {"valid", "badjson", "badutf8"}

\* What can sit at the socket path when the daemon starts:
\*   "none"     nothing
\*   "stale"    a socket file (or other non-directory entry whose target exists)
\*   "dir"      a directory
\*   "dangling" a symbolic link whose target does not exist
\* and "live" once this daemon has bound it.
Artifacts == {"none", "stale", "dir", "dangling"}

VARIABLES
  lpc,          \* where daemon::run / server::run stands
  exitErr,      \* the error daemon::run returned ("none" while running)
  home,         \* ~/.ahoy: "unknown" (no home directory can be determined),
                \* "missing", "present"
  artifact,     \* what is at the socket path now
  binds,        \* number of UnixListener::bind calls made
  workers,      \* worker threads of the runtime
  acceptFailed, \* listener.accept() has returned an error at least once
  spawned,      \* number of handler tasks tokio::spawn has created
  conn,         \* per connection: "none", "pending" (in the backlog), "accepted"
  sent,         \* per connection: the lines the client has written
  closed,       \* per connection: the client has closed its end
  reply,        \* per connection: what the daemon has written to the stream
  pc,           \* per handler: "none", "read", "show", "done", "failed"
  pos,          \* per handler: lines taken from the stream so far
  shown,        \* per handler: indices of the lines notify::show was called for
  inflight,     \* per handler: indices whose notify::show call has not returned
  showErr,      \* per handler: indices whose notify::show returned Err
  hung,         \* per handler: its notify::show call will never return
  rerr,         \* per handler: why next_line returned Err ("none", "io", "utf8")
  \* StartSpec
  dpc,          \* per daemon process: "off", "exists_check", "remove", "bind",
                \* "accept", "exited" (startup failed), "dead" (killed)
  path,         \* what is at the socket path: an Artifacts value or "live"
  pathIno,      \* inode of the socket at the path (0 when it was not bound
                \* by one of the daemons of this run)
  lsock,        \* per daemon process: inode of the socket its listener is
                \* bound to (0 when it has no listener)
  inodes,       \* socket inodes created so far
  tried,        \* per connection: connect(2) to the path was called
  reached,      \* per connection: the daemon whose listener it reached
                \* (0: connect failed)
  \* CodecSpec
  cmode,        \* "enc": a Notification is encoded, then decoded
                \* "dec": a text from the outside is decoded
  cpc,          \* "start", "encoded", "received", "decoded", "served"
  notif,        \* the Notification to encode
  shape,        \* what the received text was made from: per key, the kind
                \* of its value
  damage,       \* how the received text was damaged ("none", "cut", "extra")
  line,         \* the text: the encoded record, or the received one
  decoded,      \* what serde_json::from_str returned for the text
  calls,        \* the Notifications notify::show was called with by a
                \* handler that read the text, newline-terminated, as a stream
  \* SendSpec
  spc,          \* where send::run stands: "start", "show" (inside
                \* notify::show), "returned"
  argMessage,   \* message: Option<String>
  argTitle,     \* title: String
  argJson,      \* json: Option<String>
  argFromClaude,\* from_claude: bool
  argActivate,  \* activate: Option<String>
  stdin,        \* what standard input holds: "unreadable", "empty",
                \* "invalid", "tool", "prompt"
  listening,    \* a daemon is listening at the socket path
  built,        \* the Notification the sources gave, before the override
                \* (None while there is none)
  shownWith,    \* the Notifications notify::show was called with
  connects,     \* connect(2) calls made on the socket path
  notifierRes,  \* what notify::show returned ("none", "Ok", "Err")
  result,       \* what send::run returned ("none", "Ok", "Err_build" (the
                \* source's error), "Err_no_source" ("Either a message or
                \* --json must be provided"), "Err_notifier", "Err_connect")
  \* NotifySpec
  targetOs,     \* the build target: "macos", "linux", "windows", "other"
  stream,       \* the lines the peer wrote before it closed the connection
  hpc,          \* the handler: "off", "read", "authorize", "deliver" (the
                \* last two inside notify::show), "done", "failed"
  hpos,         \* lines the handler has taken
  osCalls,      \* calls notify::show has made into the OS
  results,      \* what each notify::show call returned, oldest first
  errlog,       \* the error! lines the handler wrote, oldest first
  \* InstallSpec
  sfile,        \* ~/.claude/settings.json: [k, v] with k "missing",
                \* "garbage" (not JSON) or "json" and v the JSON value
  sdir,         \* the directory ~/.claude exists
  start,        \* the settings file before the first call
  prev,         \* the settings file before the last call
  lastOp,       \* the last call: "none", "install", "uninstall"
  lastRes,      \* what the last call returned: "none", "Ok", "Err_..."
  wrote,        \* the last call reached fs::write
  prevOp,       \* the call before the last
  prevRes,      \* what the call before the last returned
  allOk,        \* every call so far returned Ok
  \* PromptSpec
  transcript,   \* the lines of the file at transcript_path
  openable,     \* File::open succeeds on it
  xpc,          \* "off", "start", "returned"
  prompt,       \* what extract_last_prompt returned: [ok, s]
  \* TruncSpec
  hasTool,      \* the hook data has a tool_name
  text,         \* the tool description (hasTool) or the last prompt
  tpc,          \* "off", "start", "returned", "panicked"
  part          \* tool_desc or truncated_prompt as put in the body

daemonVars == <<lpc, exitErr, home, artifact, binds, workers,
                acceptFailed, spawned, conn, sent, closed, reply, pc, pos,
                shown, inflight, showErr, hung, rerr>>

raceVars == <<dpc, path, pathIno, lsock, inodes, tried, reached>>

codecVars == <<cmode, cpc, notif, shape, damage, line, decoded, calls>>

sendVars == <<spc, argMessage, argTitle, argJson, argFromClaude, argActivate,
              stdin, listening, built, shownWith, connects, notifierRes, result>>

notifyVars == <<targetOs, stream, hpc, hpos, osCalls, results, errlog>>

installVars == <<sfile, sdir, start, prev, lastOp, lastRes, wrote, prevOp,
                 prevRes, allOk>>

\* The variables of the specifications after SendSpec.
promptVars == <<transcript, openable, xpc, prompt>>

truncVars == <<hasTool, text, tpc, part>>

extraVars == <<notifyVars, installVars, promptVars, truncVars>>

vars == <<daemonVars, raceVars, codecVars, sendVars, extraVars>>

\* The variables the single-daemon specification leaves alone.
otherVars == <<raceVars, codecVars, sendVars, extraVars>>

\* The variables StartSpec leaves alone.
startOther == <<daemonVars, codecVars, sendVars, extraVars>>

\* The variables CodecSpec leaves alone.
codecOther == <<daemonVars, raceVars, sendVars, extraVars>>

\* The variables SendSpec leaves alone.
sendOther == <<daemonVars, raceVars, codecVars, extraVars>>

\* The variables NotifySpec leaves alone.
notifyOther == <<daemonVars, raceVars, codecVars, sendVars, installVars,
                 promptVars, truncVars>>

\* The variables InstallSpec leaves alone.
installOther == <<daemonVars, raceVars, codecVars, sendVars, notifyVars,
                  promptVars, truncVars>>

\* The variables PromptSpec leaves alone.
promptOther == <<daemonVars, raceVars, codecVars, sendVars, notifyVars,
                 installVars, truncVars>>

\* The variables TruncSpec leaves alone.
truncOther == <<daemonVars, raceVars, codecVars, sendVars, notifyVars,
                installVars, promptVars>>

startVars == <<exitErr, home, artifact, binds>>
connVars == <<conn, sent, closed, reply>>
taskVars == <<pc, pos, shown, inflight, showErr, hung, rerr>>

----------------------------------------------------------------------------
\* Helpers

RECURSIVE SumLen(_, _)
SumLen(f, S) ==
  IF S = {} THEN 0
  ELSE LET c == CHOOSE x \in S : TRUE
       IN Len(f[c]) + SumLen(f, S \ {c})

TotalSent == SumLen(sent, Conns)

Ended == {"done", "failed"}

----------------------------------------------------------------------------
\* The runtime (main.rs: #[tokio::main])

\* Handlers inside the blocking notify::show call: each holds one worker thread.
Blocked == {c \in Conns : pc[c] = "show"}

\* A task can be polled, and the I/O driver turned, only by a worker thread
\* that is not held inside a blocking call.
CanRun == Cardinality(Blocked) < workers

----------------------------------------------------------------------------
\* Startup: daemon::run and the head of server::run

\* Path::exists follows symbolic links.
Exists(a) == a \in {"stale", "dir", "live"}

\* std::fs::remove_file unlinks a non-directory entry, the socket of a
\* listening daemon included, and fails on a directory or when nothing is
\* at the path.
RemoveFileOk(a) == a \in {"stale", "dangling", "live"}

\* bind(2) fails with EADDRINUSE when any entry, a dangling link included,
\* is at the path.
BindOk(a) == a = "none"

\* No handler of NotifySpec runs.
NotifyOff ==
  /\ targetOs = "macos"
  /\ stream = <<>>
  /\ hpc = "off"
  /\ hpos = 0
  /\ osCalls = 0
  /\ results = <<>>
  /\ errlog = <<>>

\* No call of install::claude is made.
InstallOff ==
  /\ sfile = <<>>
  /\ sdir = FALSE
  /\ start = <<>>
  /\ prev = <<>>
  /\ lastOp = "off"
  /\ lastRes = "none"
  /\ wrote = FALSE
  /\ prevOp = "off"
  /\ prevRes = "none"
  /\ allOk = TRUE

\* extract_last_prompt is not called.
PromptOff ==
  /\ transcript = <<>>
  /\ openable = FALSE
  /\ xpc = "off"
  /\ prompt = <<>>

\* No text is truncated.
TruncOff ==
  /\ hasTool = FALSE
  /\ text = <<>>
  /\ tpc = "off"
  /\ part = <<>>

\* The specifications after SendSpec are not run.
ExtraOff == NotifyOff /\ InstallOff /\ PromptOff /\ TruncOff

\* send::run is not called.
SendOff ==
  /\ spc = "off"
  /\ argMessage = <<>>
  /\ argTitle = <<>>
  /\ argJson = <<>>
  /\ argFromClaude = FALSE
  /\ argActivate = <<>>
  /\ stdin = "empty"
  /\ listening = FALSE
  /\ built = <<>>
  /\ shownWith = <<>>
  /\ connects = 0
  /\ notifierRes = "none"
  /\ result = "none"

\* The codec is not exercised.
CodecOff ==
  /\ cmode = "off"
  /\ cpc = "off"
  /\ notif = <<>>
  /\ shape = <<>>
  /\ damage = "none"
  /\ line = <<>>
  /\ decoded = <<>>
  /\ calls = <<>>

\* No daemon process of StartSpec has been started.
RaceOff ==
  /\ dpc = [d \in Daemons |-> "off"]
  /\ path = "none"
  /\ pathIno = 0
  /\ lsock = [d \in Daemons |-> 0]
  /\ inodes = 0
  /\ tried = [c \in Conns |-> FALSE]
  /\ reached = [c \in Conns |-> 0]

Init ==
  /\ RaceOff
  /\ CodecOff
  /\ SendOff
  /\ ExtraOff
  /\ lpc = "ensure_home"
  /\ exitErr = "none"
  /\ home \in {"unknown", "missing", "present"}
  /\ artifact \in (IF home = "present" THEN Artifacts ELSE {"none"})
  /\ binds = 0
  /\ workers \in 1..MaxWorkers
  /\ acceptFailed = FALSE
  /\ spawned = 0
  /\ conn = [c \in Conns |-> "none"]
  /\ sent = [c \in Conns |-> <<>>]
  /\ closed = [c \in Conns |-> FALSE]
  /\ reply = [c \in Conns |-> <<>>]
  /\ pc = [c \in Conns |-> "none"]
  /\ pos = [c \in Conns |-> 0]
  /\ shown = [c \in Conns |-> <<>>]
  /\ inflight = [c \in Conns |-> {}]
  /\ showErr = [c \in Conns |-> {}]
  /\ hung = [c \in Conns |-> FALSE]
  /\ rerr = [c \in Conns |-> "none"]

\* Variant of StartupFailure: a failed bind is tried again instead of returned.
StartupFailureRetryBind(step) ==
  IF step = "bind"
  THEN lpc' = "bind" /\ exitErr' = exitErr
  ELSE lpc' = "exited" /\ exitErr' = step

\* What daemon::run does with a failed startup step: `?` returns it.
StartupFailure(step) ==
  /\ lpc' = "exited"
  /\ exitErr' = step

\* config::ensure_home_dir()?, with config::home_dir() inside it:
\* dirs::home_dir().expect(..) panics when there is no home directory, and
\* the process ends with the panic's exit status.
EnsureHomeDir ==
  /\ lpc = "ensure_home"
  /\ \/ /\ home = "unknown"
        /\ lpc' = "exited"
        /\ exitErr' = "nohome"
        /\ UNCHANGED home
     \/ /\ home = "present"
        /\ lpc' = "exists_check"
        /\ UNCHANGED <<exitErr, home>>
     \/ /\ home = "missing"     \* create_dir_all succeeds
        /\ home' = "present"
        /\ lpc' = "exists_check"
        /\ UNCHANGED exitErr
     \/ /\ home = "missing"     \* create_dir_all fails
        /\ StartupFailure("home")
        /\ UNCHANGED home
  /\ UNCHANGED <<artifact, binds, workers, acceptFailed, spawned>>
  /\ UNCHANGED connVars
  /\ UNCHANGED taskVars
  /\ UNCHANGED otherVars

\* if socket_path.exists() { std::fs::remove_file(socket_path)?; }
RemoveExisting ==
  /\ lpc = "exists_check"
  /\ IF Exists(artifact)
     THEN IF RemoveFileOk(artifact)
          THEN /\ artifact' = "none"
               /\ lpc' = "bind"
               /\ UNCHANGED exitErr
          ELSE /\ StartupFailure("remove")
               /\ UNCHANGED artifact
     ELSE /\ lpc' = "bind"
          /\ UNCHANGED <<exitErr, artifact>>
  /\ UNCHANGED <<home, binds, workers, acceptFailed, spawned>>
  /\ UNCHANGED connVars
  /\ UNCHANGED taskVars
  /\ UNCHANGED otherVars

\* let listener = UnixListener::bind(socket_path)?;
Bind ==
  /\ lpc = "bind"
  /\ binds' = binds + 1
  /\ IF BindOk(artifact)
     THEN /\ artifact' = "live"
          /\ lpc' = "accept"
          /\ UNCHANGED exitErr
     ELSE /\ StartupFailure("bind")
          /\ UNCHANGED artifact
  /\ UNCHANGED <<home, workers, acceptFailed, spawned>>
  /\ UNCHANGED connVars
  /\ UNCHANGED taskVars
  /\ UNCHANGED otherVars

----------------------------------------------------------------------------
\* Peers of the socket

\* connect(2) succeeds once the listener is bound; connections are numbered
\* in the order they connect.
ClientConnect(c) ==
  /\ lpc = "accept"
  /\ artifact = "live"
  /\ conn[c] = "none"
  /\ \A d \in Conns : d < c => conn[d] # "none"
  /\ conn' = [conn EXCEPT ![c] = "pending"]
  /\ UNCHANGED <<lpc, workers, acceptFailed, spawned, sent, closed, reply>>
  /\ UNCHANGED startVars
  /\ UNCHANGED taskVars
  /\ UNCHANGED otherVars

\* The peer writes one newline-terminated line; the kernel buffers it, also
\* before the connection is accepted.
ClientSend(c, k) ==
  /\ conn[c] # "none"
  /\ ~closed[c]
  /\ pc[c] \notin Ended
  /\ TotalSent < MaxRecs
  /\ sent' = [sent EXCEPT ![c] = Append(@, k)]
  /\ UNCHANGED <<lpc, workers, acceptFailed, spawned, conn, closed, reply>>
  /\ UNCHANGED startVars
  /\ UNCHANGED taskVars
  /\ UNCHANGED otherVars

\* The peer closes its end of the stream (while the daemon still holds its
\* end: the handler drops the stream when it returns).
ClientClose(c) ==
  /\ conn[c] # "none"
  /\ ~closed[c]
  /\ pc[c] \notin Ended
  /\ closed' = [closed EXCEPT ![c] = TRUE]
  /\ UNCHANGED <<lpc, workers, acceptFailed, spawned, conn, sent, reply>>
  /\ UNCHANGED startVars
  /\ UNCHANGED taskVars
  /\ UNCHANGED otherVars

----------------------------------------------------------------------------
\* The accept loop of server::run

\* The backlog is first in, first out: accept returns the oldest pending
\* connection.
Oldest(c) ==
  /\ conn[c] = "pending"
  /\ \A d \in Conns : d < c => conn[d] # "pending"

\* Variant of AfterSpawn: the loop awaits the handler it spawned.
AfterSpawnJoin == "join"

\* Where the loop stands after the Ok arm: tokio::spawn returns at once and
\* the JoinHandle is dropped.
AfterSpawn == "accept"

\* Variant of AfterAcceptErr: the error is returned (accept().await?).
AfterAcceptErrReturn == "exited"

\* Where the loop stands after the Err arm: the error is logged.
AfterAcceptErr == "accept"

\* Ok((stream, _addr)) => { tokio::spawn(async move { handle_connection(stream) ... }); }
AcceptOk(c) ==
  /\ lpc = "accept"
  /\ CanRun
  /\ Oldest(c)
  /\ conn' = [conn EXCEPT ![c] = "accepted"]
  /\ pc' = [pc EXCEPT ![c] = "read"]
  /\ spawned' = spawned + 1
  /\ lpc' = AfterSpawn
  /\ UNCHANGED <<workers, acceptFailed, sent, closed, reply>>
  /\ UNCHANGED <<pos, shown, inflight, showErr, hung, rerr>>
  /\ UNCHANGED startVars
  /\ UNCHANGED otherVars

\* Err(e) => { error!("Error accepting connection: {}", e); }
\* accept().await completes, with Ok or Err, only when a connection is in the
\* backlog; after an error such as EMFILE the connection stays there.
AcceptErr ==
  /\ lpc = "accept"
  /\ CanRun
  /\ \E c \in Conns : conn[c] = "pending"
  /\ acceptFailed' = TRUE
  /\ lpc' = AfterAcceptErr
  /\ UNCHANGED <<workers, spawned>>
  /\ UNCHANGED startVars
  /\ UNCHANGED connVars
  /\ UNCHANGED taskVars
  /\ UNCHANGED otherVars

----------------------------------------------------------------------------
\* handle_connection

\* serde_json::from_str::<Notification>(&line)
Decode(k) == IF k = "valid" THEN "Ok" ELSE "Err"

\* Variant of NextLine: an empty buffer is taken for the end of the stream.
NextLineEager(c) ==
  IF pos[c] < Len(sent[c])
  THEN IF sent[c][pos[c] + 1] = "badutf8" THEN "utf8" ELSE "line"
  ELSE "eof"

\* lines.next_line().await on the bytes that have arrived:
\*   "line"    Ok(Some(line))
\*   "eof"     Ok(None)
\*   "utf8"    Err(InvalidData): the bytes up to the newline are not UTF-8
\*   "pending" nothing to return yet
NextLine(c) ==
  IF pos[c] < Len(sent[c])
  THEN IF sent[c][pos[c] + 1] = "badutf8" THEN "utf8" ELSE "line"
  ELSE IF closed[c] THEN "eof" ELSE "pending"

\* Where the handler stands after the arm of a decode error (logged).
AfterDecodeErr == "read"

\* Variant of AfterShow: the notifier's error is returned (notify::show(..)?).
AfterShowPropagate(res) == IF res = "Err" THEN "failed" ELSE "read"

\* Where the handler stands after notify::show returned res (an Err is logged).
AfterShow(res) == "read"

\* Variant of HandleLine: notify::show is handed to a detached task and the
\* handler goes on reading without waiting for it.
HandleLineDetached(c) ==
  /\ pc[c] = "read"
  /\ CanRun
  /\ NextLine(c) = "line"
  /\ LET i == pos[c] + 1
     IN /\ pos' = [pos EXCEPT ![c] = i]
        /\ IF Decode(sent[c][i]) = "Ok"
           THEN /\ shown' = [shown EXCEPT ![c] = Append(@, i)]
                /\ inflight' = [inflight EXCEPT ![c] = @ \cup {i}]
           ELSE UNCHANGED <<shown, inflight>>
  /\ UNCHANGED <<pc, showErr, hung, rerr>>
  /\ UNCHANGED <<lpc, workers, acceptFailed, spawned>>
  /\ UNCHANGED startVars
  /\ UNCHANGED connVars
  /\ UNCHANGED otherVars

\* Ok(Some(line)): decode it and, when it decodes, call notify::show.
HandleLine(c) ==
  /\ pc[c] = "read"
  /\ CanRun
  /\ NextLine(c) = "line"
  /\ LET i == pos[c] + 1
     IN /\ pos' = [pos EXCEPT ![c] = i]
        /\ IF Decode(sent[c][i]) = "Ok"
           THEN /\ shown' = [shown EXCEPT ![c] = Append(@, i)]
                /\ inflight' = [inflight EXCEPT ![c] = @ \cup {i}]
                /\ pc' = [pc EXCEPT ![c] = "show"]
           ELSE /\ pc' = [pc EXCEPT ![c] = AfterDecodeErr]
                /\ UNCHANGED <<shown, inflight>>
  /\ UNCHANGED <<showErr, hung, rerr>>
  /\ UNCHANGED <<lpc, workers, acceptFailed, spawned>>
  /\ UNCHANGED startVars
  /\ UNCHANGED connVars
  /\ UNCHANGED otherVars

\* Variant of ShowReturn: a notifier error takes every handler task down.
ShowReturnFatal(c, res) ==
  /\ pc[c] = "show"
  /\ ~hung[c]
  /\ inflight' = [inflight EXCEPT ![c] = {}]
  /\ showErr' = [showErr EXCEPT ![c] = IF res = "Err" THEN @ \cup inflight[c] ELSE @]
  /\ pc' = IF res = "Err"
           THEN [d \in Conns |-> IF pc[d] = "none" THEN "none" ELSE "failed"]
           ELSE [pc EXCEPT ![c] = "read"]
  /\ UNCHANGED <<pos, shown, hung, rerr>>
  /\ UNCHANGED <<lpc, workers, acceptFailed, spawned>>
  /\ UNCHANGED startVars
  /\ UNCHANGED connVars
  /\ UNCHANGED otherVars

\* Variant of ShowReturn: the handler writes the notifier's result back on
\* the stream.
ShowReturnAck(c, res) ==
  /\ pc[c] = "show"
  /\ ~hung[c]
  /\ inflight' = [inflight EXCEPT ![c] = {}]
  /\ showErr' = [showErr EXCEPT ![c] = IF res = "Err" THEN @ \cup inflight[c] ELSE @]
  /\ pc' = [pc EXCEPT ![c] = AfterShow(res)]
  /\ reply' = [reply EXCEPT ![c] = Append(@, res)]
  /\ UNCHANGED <<pos, shown, hung, rerr>>
  /\ UNCHANGED <<lpc, workers, acceptFailed, spawned>>
  /\ UNCHANGED startVars
  /\ UNCHANGED <<conn, sent, closed>>
  /\ UNCHANGED otherVars

\* notify::show returns Ok or Err to the handler.
ShowReturn(c, res) ==
  /\ pc[c] = "show"
  /\ ~hung[c]
  /\ inflight' = [inflight EXCEPT ![c] = {}]
  /\ showErr' = [showErr EXCEPT ![c] = IF res = "Err" THEN @ \cup inflight[c] ELSE @]
  /\ pc' = [pc EXCEPT ![c] = AfterShow(res)]
  /\ UNCHANGED <<pos, shown, hung, rerr>>
  /\ UNCHANGED <<lpc, workers, acceptFailed, spawned>>
  /\ UNCHANGED startVars
  /\ UNCHANGED connVars
  /\ UNCHANGED otherVars

\* The OS call inside notify::show (rx.recv() on the completion channel)
\* never completes.
ShowHang(c) ==
  /\ pc[c] = "show"
  /\ ~hung[c]
  /\ hung' = [hung EXCEPT ![c] = TRUE]
  /\ UNCHANGED <<pc, pos, shown, inflight, showErr, rerr>>
  /\ UNCHANGED <<lpc, workers, acceptFailed, spawned>>
  /\ UNCHANGED startVars
  /\ UNCHANGED connVars
  /\ UNCHANGED otherVars

\* Ok(None): the loop ends and the handler returns Ok(()).
HandleEof(c) ==
  /\ pc[c] = "read"
  /\ CanRun
  /\ NextLine(c) = "eof"
  /\ pc' = [pc EXCEPT ![c] = "done"]
  /\ UNCHANGED <<pos, shown, inflight, showErr, hung, rerr>>
  /\ UNCHANGED <<lpc, workers, acceptFailed, spawned>>
  /\ UNCHANGED startVars
  /\ UNCHANGED connVars
  /\ UNCHANGED otherVars

\* next_line().await? : Err(e) returns from the handler; the spawned task
\* logs it and the stream is dropped.
HandleReadErr(c) ==
  /\ pc[c] = "read"
  /\ CanRun
  /\ \/ /\ NextLine(c) = "utf8"
        /\ pos' = [pos EXCEPT ![c] = @ + 1]
        /\ rerr' = [rerr EXCEPT ![c] = "utf8"]
     \/ /\ NextLine(c) = "pending"     \* the read(2) for more bytes fails
        /\ rerr' = [rerr EXCEPT ![c] = "io"]
        /\ UNCHANGED pos
  /\ pc' = [pc EXCEPT ![c] = "failed"]
  /\ UNCHANGED <<shown, inflight, showErr, hung>>
  /\ UNCHANGED <<lpc, workers, acceptFailed, spawned>>
  /\ UNCHANGED startVars
  /\ UNCHANGED connVars
  /\ UNCHANGED otherVars

----------------------------------------------------------------------------
Startup == EnsureHomeDir \/ RemoveExisting \/ Bind

Listener == AcceptErr \/ \E c \in Conns : AcceptOk(c)

Handler(c) ==
  \/ HandleLine(c)
  \/ HandleEof(c)
  \/ HandleReadErr(c)
  \/ ShowHang(c)
  \/ \E res \in {"Ok", "Err"} : ShowReturn(c, res)

Client(c) ==
  \/ ClientConnect(c)
  \/ ClientClose(c)
  \/ \E k \in LineKinds : ClientSend(c, k)

Next ==
  \/ Startup
  \/ Listener
  \/ \E c \in Conns : Handler(c)
  \/ \E c \in Conns : Client(c)

Spec == Init /\ [][Next]_vars

\* The runtime polls a task that is ready whenever a worker thread is free,
\* and a notify::show call that does not hang returns.  Nothing obliges the
\* peers to write or close, the reads to fail, or accept to succeed.
Poll(c) ==
  \/ HandleLine(c)
  \/ HandleEof(c)
  \/ (NextLine(c) = "utf8" /\ HandleReadErr(c))

Return(c) == \E res \in {"Ok", "Err"} : ShowReturn(c, res)

FairSpec ==
  /\ Spec
  /\ \A c \in Conns : WF_vars(Poll(c)) /\ WF_vars(Return(c))

----------------------------------------------------------------------------
\* StartSpec: several daemon processes, each running the head of server::run
\* against the same socket path.  The steps of one process (the exists
\* check, the remove, the bind) interleave with those of the others.

\* The single-daemon variables, pinned while StartSpec runs.
DaemonOff ==
  /\ lpc = "ensure_home"
  /\ exitErr = "none"
  /\ home = "present"
  /\ artifact = "none"
  /\ binds = 0
  /\ workers = 1
  /\ acceptFailed = FALSE
  /\ spawned = 0
  /\ conn = [c \in Conns |-> "none"]
  /\ sent = [c \in Conns |-> <<>>]
  /\ closed = [c \in Conns |-> FALSE]
  /\ reply = [c \in Conns |-> <<>>]
  /\ pc = [c \in Conns |-> "none"]
  /\ pos = [c \in Conns |-> 0]
  /\ shown = [c \in Conns |-> <<>>]
  /\ inflight = [c \in Conns |-> {}]
  /\ showErr = [c \in Conns |-> {}]
  /\ hung = [c \in Conns |-> FALSE]
  /\ rerr = [c \in Conns |-> "none"]

StartInit ==
  /\ DaemonOff
  /\ CodecOff
  /\ SendOff
  /\ ExtraOff
  /\ dpc = [d \in Daemons |-> "off"]
  /\ path \in Artifacts
  /\ pathIno = 0
  /\ lsock = [d \in Daemons |-> 0]
  /\ inodes = 0
  /\ tried = [c \in Conns |-> FALSE]
  /\ reached = [c \in Conns |-> 0]

\* The running daemons whose listener is the socket the path names: a
\* connect(2) to the path lands in the backlog of such a listener.
Holders ==
  {d \in Daemons : dpc[d] = "accept" /\ path = "live" /\ lsock[d] = pathIno}

\* `ahoy daemon` is started once more; processes are numbered in the order
\* they are started, and nothing stops a start while another daemon runs.
Launch(d) ==
  /\ dpc[d] = "off"
  /\ \A e \in Daemons : e < d => dpc[e] # "off"
  /\ dpc' = [dpc EXCEPT ![d] = "exists_check"]
  /\ UNCHANGED <<path, pathIno, lsock, inodes, tried, reached>>
  /\ UNCHANGED startOther

\* if socket_path.exists() {
CheckExists(d) ==
  /\ dpc[d] = "exists_check"
  /\ dpc' = [dpc EXCEPT ![d] = IF Exists(path) THEN "remove" ELSE "bind"]
  /\ UNCHANGED <<path, pathIno, lsock, inodes, tried, reached>>
  /\ UNCHANGED startOther

\*     std::fs::remove_file(socket_path)?; }
\* The entry is unlinked whoever made it; a listener bound to it keeps its
\* socket, which no path names any more.
RemoveFile(d) ==
  /\ dpc[d] = "remove"
  /\ IF RemoveFileOk(path)
     THEN /\ path' = "none"
          /\ pathIno' = 0
          /\ dpc' = [dpc EXCEPT ![d] = "bind"]
     ELSE /\ dpc' = [dpc EXCEPT ![d] = "exited"]
          /\ UNCHANGED <<path, pathIno>>
  /\ UNCHANGED <<lsock, inodes, tried, reached>>
  /\ UNCHANGED startOther

\* Variant of BindPath: a bind that finds the socket of a listening daemon at
\* the path attaches to that socket instead of failing.
BindPathShared(d) ==
  /\ dpc[d] = "bind"
  /\ IF BindOk(path)
     THEN /\ inodes' = inodes + 1
          /\ lsock' = [lsock EXCEPT ![d] = inodes + 1]
          /\ path' = "live"
          /\ pathIno' = inodes + 1
          /\ dpc' = [dpc EXCEPT ![d] = "accept"]
     ELSE IF path = "live"
          THEN /\ lsock' = [lsock EXCEPT ![d] = pathIno]
               /\ dpc' = [dpc EXCEPT ![d] = "accept"]
               /\ UNCHANGED <<path, pathIno, inodes>>
          ELSE /\ dpc' = [dpc EXCEPT ![d] = "exited"]
               /\ UNCHANGED <<path, pathIno, lsock, inodes>>
  /\ UNCHANGED <<tried, reached>>
  /\ UNCHANGED startOther

\* let listener = UnixListener::bind(socket_path)?;
\* bind(2) creates a new socket inode at the path, or fails when an entry is
\* there.
BindPath(d) ==
  /\ dpc[d] = "bind"
  /\ IF BindOk(path)
     THEN /\ inodes' = inodes + 1
          /\ lsock' = [lsock EXCEPT ![d] = inodes + 1]
          /\ path' = "live"
          /\ pathIno' = inodes + 1
          /\ dpc' = [dpc EXCEPT ![d] = "accept"]
     ELSE /\ dpc' = [dpc EXCEPT ![d] = "exited"]
          /\ UNCHANGED <<path, pathIno, lsock, inodes>>
  /\ UNCHANGED <<tried, reached>>
  /\ UNCHANGED startOther

\* A daemon in its accept loop is killed: its listener is closed and nothing
\* unlinks the socket file (server::run has no cleanup), which is then a
\* stale artifact.
Kill(d) ==
  /\ dpc[d] = "accept"
  /\ dpc' = [dpc EXCEPT ![d] = "dead"]
  /\ lsock' = [lsock EXCEPT ![d] = 0]
  /\ IF path = "live" /\ pathIno = lsock[d]
     THEN path' = "stale" /\ pathIno' = 0
     ELSE UNCHANGED <<path, pathIno>>
  /\ UNCHANGED <<inodes, tried, reached>>
  /\ UNCHANGED startOther

\* A peer calls connect(2) on the path: it reaches the listener bound to the
\* socket the path names, and fails when there is none.
Connect(c) ==
  /\ ~tried[c]
  /\ \A b \in Conns : b < c => tried[b]
  /\ tried' = [tried EXCEPT ![c] = TRUE]
  /\ reached' = [reached EXCEPT ![c] =
                   IF Holders = {} THEN 0 ELSE CHOOSE d \in Holders : TRUE]
  /\ UNCHANGED <<dpc, path, pathIno, lsock, inodes>>
  /\ UNCHANGED startOther

StartNext ==
  \/ \E d \in Daemons : Launch(d)
  \/ \E d \in Daemons : CheckExists(d)
  \/ \E d \in Daemons : RemoveFile(d)
  \/ \E d \in Daemons : BindPath(d)
  \/ \E d \in Daemons : Kill(d)
  \/ \E c \in Conns : Connect(c)

StartSpec == StartInit /\ [][StartNext]_vars

----------------------------------------------------------------------------
\* The wire codec: #[derive(Serialize, Deserialize)] on Notification, with
\* serde_json as the format.
\*
\* A text is a sequence of characters.  The characters that matter to JSON
\* are themselves; the letters of a field name are written as one character
\* ("title" stands for t,i,t,l,e), "null" and "0" likewise stand for the
\* literal null and for a number.

QUOTE == "\""
BSL == "\\"
LF == "\n"

\* The characters a string value is made of here: a plain letter, and the
\* three that serde_json must treat specially.
Alpha == {"n", QUOTE, BSL, LF}

\* Option<String>: None, Some(s)
None == <<>>
Some(s) == <<s>>

\* serde_json::Value, as far as it is used here: a string, null, a number,
\* or an object given by its members in text order (<<key, value>> pairs).
JStr(s) == [k |-> "str", s |-> s, m |-> <<>>]
JNull == [k |-> "null", s |-> <<>>, m |-> <<>>]
JNum == [k |-> "num", s |-> <<>>, m |-> <<>>]
JObj(members) == [k |-> "obj", s |-> <<>>, m |-> members]

\* HashMap::new()
EmptyMap == <<>>

\* Notification::new(title, body)
New(title, body) ==
  [title |-> title, body |-> body, icon |-> None, activate |-> None,
   metadata |-> EmptyMap]

\* Variant of Escape: the backslash is written as it is.
RECURSIVE EscapeKeepBackslash(_)
EscapeKeepBackslash(s) ==
  IF s = <<>> THEN <<>>
  ELSE LET c == Head(s)
       IN (IF c = QUOTE THEN <<BSL, QUOTE>>
           ELSE IF c = LF THEN <<BSL, "n">>
           ELSE <<c>>) \o EscapeKeepBackslash(Tail(s))

\* Variant of Escape: the newline is written as it is.
RECURSIVE EscapeKeepNewline(_)
EscapeKeepNewline(s) ==
  IF s = <<>> THEN <<>>
  ELSE LET c == Head(s)
       IN (IF c = QUOTE THEN <<BSL, QUOTE>>
           ELSE IF c = BSL THEN <<BSL, BSL>>
           ELSE <<c>>) \o EscapeKeepNewline(Tail(s))

\* serde_json's format_escaped_str_contents: the quote and the backslash
\* get a backslash in front, the newline becomes backslash n.
RECURSIVE Escape(_)
Escape(s) ==
  IF s = <<>> THEN <<>>
  ELSE LET c == Head(s)
       IN (IF c = QUOTE THEN <<BSL, QUOTE>>
           ELSE IF c = BSL THEN <<BSL, BSL>>
           ELSE IF c = LF THEN <<BSL, "n">>
           ELSE <<c>>) \o Escape(Tail(s))

\* A string literal.
Lit(s) == <<QUOTE>> \o Escape(s) \o <<QUOTE>>

\* serde_json's compact writer on a Value.
RECURSIVE Render(_)
RECURSIVE RenderMembers(_)
Render(v) ==
  CASE v.k = "str" -> Lit(v.s)
    [] v.k = "null" -> <<"null">>
    [] v.k = "num" -> <<"0">>
    [] v.k = "obj" -> <<"{">> \o RenderMembers(v.m) \o <<"}">>

RenderMembers(ms) ==
  IF ms = <<>> THEN <<>>
  ELSE Lit(ms[1][1]) \o <<":">> \o Render(ms[1][2])
       \o (IF Len(ms) = 1 THEN <<>> ELSE <<",">> \o RenderMembers(Tail(ms)))

\* The orders in which a HashMap with key set S can be iterated.
Orders(S) ==
  {o \in [1..Cardinality(S) -> S] :
     \A i \in DOMAIN o : \A j \in DOMAIN o : i # j => o[i] # o[j]}

\* Variant of Members: None is written as null (no skip_serializing_if).
MembersWithNull(n, order) ==
  <<(<< <<"title">>, JStr(n.title) >>), (<< <<"body">>, JStr(n.body) >>)>>
  \o << (<< <<"icon">>, IF n.icon = None THEN JNull ELSE JStr(n.icon[1]) >>) >>
  \o (IF n.activate = None THEN <<>>
      ELSE << (<< <<"activate">>, JStr(n.activate[1]) >>) >>)
  \o (IF DOMAIN n.metadata = {} THEN <<>>
      ELSE << (<< <<"metadata">>,
                  JObj([i \in DOMAIN order |->
                          <<order[i], n.metadata[order[i]]>>]) >>) >>)

\* The members the derived Serialize impl writes for n, the metadata map
\* being iterated in the given order: title and body always, icon and
\* activate unless None (skip_serializing_if = "Option::is_none"), metadata
\* unless empty (skip_serializing_if = "HashMap::is_empty").
Members(n, order) ==
  <<(<< <<"title">>, JStr(n.title) >>), (<< <<"body">>, JStr(n.body) >>)>>
  \o (IF n.icon = None THEN <<>>
      ELSE << (<< <<"icon">>, JStr(n.icon[1]) >>) >>)
  \o (IF n.activate = None THEN <<>>
      ELSE << (<< <<"activate">>, JStr(n.activate[1]) >>) >>)
  \o (IF DOMAIN n.metadata = {} THEN <<>>
      ELSE << (<< <<"metadata">>,
                  JObj([i \in DOMAIN order |->
                          <<order[i], n.metadata[order[i]]>>]) >>) >>)

\* serde_json::to_string(&n)
ToString(n, order) == Render(JObj(Members(n, order)))

\* What a parse that failed returns.
Fail == [ok |-> FALSE, v |-> JNull, next |-> 0]

\* serde_json's parse_str, from the character after the opening quote: the
\* value read up to the closing quote, escapes undone.  A raw newline (a
\* control character) inside the literal, an unknown escape and the end of
\* the text are errors.
RECURSIVE ReadStr(_, _, _)
ReadStr(t, i, acc) ==
  IF i > Len(t) THEN Fail
  ELSE IF t[i] = QUOTE THEN [ok |-> TRUE, v |-> JStr(acc), next |-> i + 1]
  ELSE IF t[i] = LF THEN Fail
  ELSE IF t[i] = BSL
       THEN IF i + 1 > Len(t) THEN Fail
            ELSE IF t[i + 1] \in {QUOTE, BSL}
                 THEN ReadStr(t, i + 2, Append(acc, t[i + 1]))
            ELSE IF t[i + 1] = "n" THEN ReadStr(t, i + 2, Append(acc, LF))
            ELSE Fail
  ELSE ReadStr(t, i + 1, Append(acc, t[i]))

\* serde_json's parser on the text t from position i: the value read and the
\* position after it.  (Texts here carry no white space between tokens.)
RECURSIVE ParseValue(_, _)
RECURSIVE ParseMembers(_, _, _)
ParseValue(t, i) ==
  IF i > Len(t) THEN Fail
  ELSE IF t[i] = QUOTE THEN ReadStr(t, i + 1, <<>>)
  ELSE IF t[i] = "null" THEN [ok |-> TRUE, v |-> JNull, next |-> i + 1]
  ELSE IF t[i] = "0" THEN [ok |-> TRUE, v |-> JNum, next |-> i + 1]
  ELSE IF t[i] = "{"
       THEN IF i + 1 > Len(t) THEN Fail
            ELSE IF t[i + 1] = "}"
                 THEN [ok |-> TRUE, v |-> JObj(<<>>), next |-> i + 2]
            ELSE ParseMembers(t, i + 1, <<>>)
  ELSE Fail

\* The members of an object from position i, acc being those read so far.
ParseMembers(t, i, acc) ==
  IF i > Len(t) THEN Fail
  ELSE IF t[i] # QUOTE THEN Fail
  ELSE LET key == ReadStr(t, i + 1, <<>>)
       IN IF ~key.ok THEN Fail
          ELSE IF key.next > Len(t) THEN Fail
          ELSE IF t[key.next] # ":" THEN Fail
          ELSE LET val == ParseValue(t, key.next + 1)
               IN IF ~val.ok THEN Fail
                  ELSE IF val.next > Len(t) THEN Fail
                  ELSE IF t[val.next] = "}"
                       THEN [ok |-> TRUE,
                             v |-> JObj(Append(acc, <<key.v.s, val.v>>)),
                             next |-> val.next + 1]
                  ELSE IF t[val.next] = ","
                       THEN ParseMembers(t, val.next + 1,
                                         Append(acc, <<key.v.s, val.v>>))
                  ELSE Fail

\* The positions of the members of ms that have the given key.
Idx(ms, key) == {j \in 1..Len(ms) : ms[j][1] = key}

\* The value of the member with the given key (the last one when repeated).
ValueOf(ms, key) ==
  ms[CHOOSE j \in Idx(ms, key) : \A i \in Idx(ms, key) : i <= j][2]

\* Variant of Required: a missing field, or one of another kind, is taken as
\* the empty string (#[serde(default)] with a lenient visitor).
RequiredLenient(ms, key) == Cardinality(Idx(ms, key)) <= 1

\* A field of type String: the key occurs once (missing_field and
\* duplicate_field are errors) with a string value.
Required(ms, key) ==
  /\ Cardinality(Idx(ms, key)) = 1
  /\ ValueOf(ms, key).k = "str"

\* A field of type Option<String>: missing or null gives None, a string
\* gives Some; a repeated key and any other kind are errors.
Optional(ms, key) ==
  \/ Idx(ms, key) = {}
  \/ /\ Cardinality(Idx(ms, key)) = 1
     /\ ValueOf(ms, key).k \in {"str", "null"}

\* Variant of Defaulted: a missing field is an error (no #[serde(default)]).
DefaultedMissing(ms, key) ==
  /\ Cardinality(Idx(ms, key)) = 1
  /\ ValueOf(ms, key).k = "obj"

\* The field metadata: HashMap<String, Value> with #[serde(default)]:
\* missing gives the empty map, an object gives its entries; a repeated key
\* and any other kind, null included, are errors.
Defaulted(ms, key) ==
  \/ Idx(ms, key) = {}
  \/ /\ Cardinality(Idx(ms, key)) = 1
     /\ ValueOf(ms, key).k = "obj"

StringOf(ms, key) ==
  IF Idx(ms, key) = {} THEN <<>>
  ELSE IF ValueOf(ms, key).k = "str" THEN ValueOf(ms, key).s
  ELSE <<>>

OptionOf(ms, key) ==
  IF Idx(ms, key) = {} THEN None
  ELSE IF ValueOf(ms, key).k = "str" THEN Some(ValueOf(ms, key).s)
  ELSE None

\* The HashMap an object's members insert into: a repeated key keeps the
\* last value.
MapOf(ms) == [key \in {ms[j][1] : j \in 1..Len(ms)} |-> ValueOf(ms, key)]

\* The result of a decode that failed.
DecodeErr == [ok |-> FALSE, n |-> New(<<>>, <<>>)]

\* The derived Deserialize impl of Notification on a parsed value: a map is
\* visited member by member, unknown keys are skipped.
FromValue(v) ==
  IF v.k # "obj" THEN DecodeErr
  ELSE IF /\ Required(v.m, <<"title">>)
          /\ Required(v.m, <<"body">>)
          /\ Optional(v.m, <<"icon">>)
          /\ Optional(v.m, <<"activate">>)
          /\ Defaulted(v.m, <<"metadata">>)
       THEN [ok |-> TRUE,
             n |-> [title |-> StringOf(v.m, <<"title">>),
                    body |-> StringOf(v.m, <<"body">>),
                    icon |-> OptionOf(v.m, <<"icon">>),
                    activate |-> OptionOf(v.m, <<"activate">>),
                    metadata |-> IF Idx(v.m, <<"metadata">>) = {} THEN EmptyMap
                                 ELSE IF ValueOf(v.m, <<"metadata">>).k = "obj"
                                      THEN MapOf(ValueOf(v.m, <<"metadata">>).m)
                                      ELSE EmptyMap]]
       ELSE DecodeErr

\* serde_json::from_str::<Notification>(t): the whole text must be one value.
FromStr(t) ==
  LET r == ParseValue(t, 1)
  IN IF ~r.ok THEN DecodeErr
     ELSE IF r.next # Len(t) + 1 THEN DecodeErr
     ELSE FromValue(r.v)

\* tokio's lines(): the text up to each newline, without it, and what
\* follows the last newline when that is not empty.
RECURSIVE SplitLines(_, _)
SplitLines(t, cur) ==
  IF t = <<>> THEN (IF cur = <<>> THEN <<>> ELSE <<cur>>)
  ELSE IF Head(t) = LF THEN <<cur>> \o SplitLines(Tail(t), <<>>)
  ELSE SplitLines(Tail(t), Append(cur, Head(t)))

\* The body of handle_connection's loop over the lines ls: the Notifications
\* notify::show is called with, in order; a line that fails to decode is
\* logged and skipped.
RECURSIVE Dispatch(_)
Dispatch(ls) ==
  IF ls = <<>> THEN <<>>
  ELSE (IF FromStr(Head(ls)).ok THEN <<FromStr(Head(ls)).n>> ELSE <<>>)
       \o Dispatch(Tail(ls))

----------------------------------------------------------------------------
\* CodecSpec: the codec applied to Notifications and to texts drawn from
\* bounded sets.

MaxChars == 2     \* characters in all the strings of a Notification together

\* The strings of at most b characters.
StrsUpTo(b) == UNION {[1..j -> Alpha] : j \in 0..b}

\* The keys a metadata map has here: a plain one, and one with a newline.
MetaKey1 == <<"n">>
MetaKey2 == <<LF>>

\* A Notification is drawn by its shape (which optional fields are present,
\* and for each metadata key whether it is absent or holds null, a number or
\* a string) and by the strings that fill it.
EncShapes ==
  [icon : BOOLEAN, activate : BOOLEAN,
   m1 : {"absent", "null", "num", "str"}, m2 : {"absent", "null", "num", "str"}]

\* The strings a field can be given when b characters are left: none but
\* the empty one when the shape does not use the field.
SlotStrs(used, b) == IF used THEN StrsUpTo(b) ELSE {<<>>}

MetaValue(kind, s) ==
  IF kind = "str" THEN JStr(s) ELSE IF kind = "num" THEN JNum ELSE JNull

\* The Notification of shape sh with title t, body b, icon i, activate a and
\* metadata strings s1, s2.
Make(sh, t, b, i, a, s1, s2) ==
  [title |-> t,
   body |-> b,
   icon |-> IF sh.icon THEN Some(i) ELSE None,
   activate |-> IF sh.activate THEN Some(a) ELSE None,
   metadata |-> [key \in (IF sh.m1 = "absent" THEN {} ELSE {MetaKey1})
                         \cup (IF sh.m2 = "absent" THEN {} ELSE {MetaKey2}) |->
                   IF key = MetaKey1 THEN MetaValue(sh.m1, s1)
                   ELSE MetaValue(sh.m2, s2)]]

\* notif is any Notification whose strings have at most MaxChars characters
\* in all.
DrawNotif ==
  \E sh \in EncShapes :
    \E t \in StrsUpTo(MaxChars) :
      \E b \in StrsUpTo(MaxChars - Len(t)) :
        \E i \in SlotStrs(sh.icon, MaxChars - (Len(t) + Len(b))) :
          \E a \in SlotStrs(sh.activate, MaxChars - (Len(t) + Len(b) + Len(i))) :
            \E s1 \in SlotStrs(sh.m1 = "str",
                               MaxChars - (Len(t) + Len(b) + Len(i) + Len(a))) :
              \E s2 \in SlotStrs(sh.m2 = "str",
                                 MaxChars - (Len(t) + Len(b) + Len(i) + Len(a) + Len(s1))) :
                notif = Make(sh, t, b, i, a, s1, s2)

\* A received text is drawn by the kind of value each key has in it, and by
\* the damage done to it.  "twice" is the key given two times, "obj1" an
\* object with one entry; "top" is the kind of the text as a whole.
Kinds == {"absent", "null", "num", "obj", "str"}

DecShapes ==
  [top : {"obj"}, title : Kinds \cup {"twice"}, body : Kinds, icon : Kinds,
   activate : Kinds, metadata : Kinds \cup {"obj1"}, other : {"absent", "null"}]
  \cup [top : {"null", "str"}, title : {"absent"}, body : {"absent"},
        icon : {"absent"}, activate : {"absent"}, metadata : {"absent"},
        other : {"absent"}]

Damages == {"none", "cut", "extra"}

KindValue(kind) ==
  CASE kind = "null" -> JNull
    [] kind = "num" -> JNum
    [] kind = "obj" -> JObj(<<>>)
    [] kind = "obj1" -> JObj(<< <<MetaKey1, JStr(<<"n">>)>> >>)
    [] OTHER -> JStr(<<"n">>)

Member(key, kind) ==
  IF kind = "absent" THEN <<>>
  ELSE IF kind = "twice"
       THEN << <<key, JStr(<<"n">>)>>, <<key, JStr(<<>>)>> >>
  ELSE << <<key, KindValue(kind)>> >>

DocOf(sh) ==
  IF sh.top = "obj"
  THEN JObj(Member(<<"body">>, sh.body) \o Member(<<"other">>, sh.other)
            \o Member(<<"metadata">>, sh.metadata) \o Member(<<"title">>, sh.title)
            \o Member(<<"activate">>, sh.activate) \o Member(<<"icon">>, sh.icon))
  ELSE KindValue(sh.top)

\* "cut": the last character is missing; "extra": a character follows the
\* value.
Damage(t, how) ==
  IF how = "cut" THEN SubSeq(t, 1, Len(t) - 1)
  ELSE IF how = "extra" THEN Append(t, "}")
  ELSE t

CodecInit ==
  /\ DaemonOff
  /\ RaceOff
  /\ SendOff
  /\ ExtraOff
  /\ decoded = <<>>
  /\ calls = <<>>
  /\ \/ /\ cmode = "enc"
        /\ cpc = "start"
        /\ DrawNotif
        /\ shape = <<>>
        /\ damage = "none"
        /\ line = <<>>
     \/ /\ cmode = "dec"
        /\ cpc = "received"
        /\ notif = <<>>
        /\ shape \in DecShapes
        /\ damage \in Damages
        /\ line = Damage(Render(DocOf(shape)), damage)

\* serde_json::to_string(&notif)
Serialize ==
  /\ cmode = "enc"
  /\ cpc = "start"
  /\ \E order \in Orders(DOMAIN notif.metadata) : line' = ToString(notif, order)
  /\ cpc' = "encoded"
  /\ UNCHANGED <<cmode, notif, shape, damage, decoded, calls>>
  /\ UNCHANGED codecOther

\* serde_json::from_str::<Notification>(&line)
Deserialize ==
  /\ cpc \in {"encoded", "received"}
  /\ decoded' = FromStr(line)
  /\ cpc' = "decoded"
  /\ UNCHANGED <<cmode, notif, shape, damage, line, calls>>
  /\ UNCHANGED codecOther

\* The text is written to a connection, followed by a newline, and the
\* connection handler reads the stream to its end.
ServeLines ==
  /\ cpc = "decoded"
  /\ calls' = Dispatch(SplitLines(Append(line, LF), <<>>))
  /\ cpc' = "served"
  /\ UNCHANGED <<cmode, notif, shape, damage, line, decoded>>
  /\ UNCHANGED codecOther

CodecNext == Serialize \/ Deserialize \/ ServeLines

CodecSpec == CodecInit /\ [][CodecNext]_vars

----------------------------------------------------------------------------
\* SendSpec: one call of client::send::run(message, title, json,
\* from_claude, activate).

\* The result of a source that gave no Notification.
BuildErr == [ok |-> FALSE, n |-> New(<<>>, <<>>)]

\* build_from_claude_stdin(&title): standard input cannot be read or is not
\* hook data: an error; it is empty: "Task finished"; otherwise a body made
\* from the tool use or from the last prompt.  The body is one character
\* here, named after the case.
BuildFromClaude(title, in) ==
  CASE in = "empty" -> [ok |-> TRUE, n |-> New(title, <<"Task finished">>)]
    [] in = "tool" -> [ok |-> TRUE, n |-> New(title, <<"[project] tool">>)]
    [] in = "prompt" -> [ok |-> TRUE, n |-> New(title, <<"[project] prompt">>)]
    [] OTHER -> BuildErr

\* Variant of BuildNotification: the JSON blob is looked at first.
BuildNotificationJsonFirst(fromClaude, json, message, title, in) ==
  IF json # None THEN FromStr(json[1])
  ELSE IF fromClaude THEN BuildFromClaude(title, in)
  ELSE IF message # None THEN [ok |-> TRUE, n |-> New(title, message[1])]
  ELSE BuildErr

\* let mut notification = if from_claude { .. } else if let Some(json_str) =
\* json { .. } else if let Some(body) = message { .. } else { bail!(..) };
BuildNotification(fromClaude, json, message, title, in) ==
  IF fromClaude THEN BuildFromClaude(title, in)
  ELSE IF json # None THEN FromStr(json[1])
  ELSE IF message # None THEN [ok |-> TRUE, n |-> New(title, message[1])]
  ELSE BuildErr

\* The error send::run returns when no Notification was built: the bail!
\* of the last arm, or the error of the source that was picked.
BuildFailure(fromClaude, json, message) ==
  IF ~fromClaude /\ json = None /\ message = None
  THEN "Err_no_source" ELSE "Err_build"

\* Variant of ApplyActivate: the override fills in a missing value only.
ApplyActivateIfUnset(n, activate) ==
  IF activate # None /\ n.activate = None
  THEN [n EXCEPT !.activate = activate]
  ELSE n

\* if let Some(bundle_id) = activate { notification.activate = Some(bundle_id); }
ApplyActivate(n, activate) ==
  IF activate # None THEN [n EXCEPT !.activate = activate] ELSE n

\* Variant of SendResult: the notifier's result is dropped.
SendResultDropped(res) == "Ok"

\* send_notification returns what notify::show returned.
SendResult(res) == IF res = "Ok" THEN "Ok" ELSE "Err_notifier"

\* The texts given as --json: title and body strings or body missing, each
\* with and without icon, activate (also null) and metadata.
JsonShapes ==
  [top : {"obj"}, title : {"str"}, body : {"str", "absent"},
   icon : {"absent", "str"}, activate : {"absent", "str", "null"},
   metadata : {"absent", "obj1"}, other : {"absent"}]

JsonArgs == {Render(DocOf(sh)) : sh \in JsonShapes}

SendInit ==
  /\ DaemonOff
  /\ RaceOff
  /\ CodecOff
  /\ ExtraOff
  /\ spc = "start"
  /\ argMessage \in {None, Some(<<"n">>)}
  /\ argTitle \in {<<"Ahoy">>, <<>>}
  /\ argJson \in {None} \cup {Some(j) : j \in JsonArgs}
  /\ argFromClaude \in BOOLEAN
  /\ argActivate \in {None, Some(<<"n">>), Some(<<QUOTE>>)}
  /\ stdin \in (IF argFromClaude
                THEN {"unreadable", "empty", "invalid", "tool", "prompt"}
                ELSE {"empty"})
  /\ listening \in BOOLEAN
  /\ built = None
  /\ shownWith = <<>>
  /\ connects = 0
  /\ notifierRes = "none"
  /\ result = "none"

\* send::run up to the call of notify::show inside send_notification: the
\* Notification is built, the override applied, and the notifier called
\* in-process; a source that fails returns its error at once.
RunToShow ==
  /\ spc = "start"
  /\ LET b == BuildNotification(argFromClaude, argJson, argMessage, argTitle, stdin)
     IN IF b.ok
        THEN /\ built' = Some(b.n)
             /\ shownWith' = Append(shownWith, ApplyActivate(b.n, argActivate))
             /\ spc' = "show"
             /\ UNCHANGED result
        ELSE /\ result' = BuildFailure(argFromClaude, argJson, argMessage)
             /\ spc' = "returned"
             /\ UNCHANGED <<built, shownWith>>
  /\ UNCHANGED <<argMessage, argTitle, argJson, argFromClaude, argActivate,
                 stdin, listening, connects, notifierRes>>
  /\ UNCHANGED sendOther

\* notify::show returns, and send_notification and send::run with it.
NotifierReturns(res) ==
  /\ spc = "show"
  /\ notifierRes' = res
  /\ result' = SendResult(res)
  /\ spc' = "returned"
  /\ UNCHANGED <<argMessage, argTitle, argJson, argFromClaude, argActivate,
                 stdin, listening, built, shownWith, connects>>
  /\ UNCHANGED sendOther

SendNext == RunToShow \/ \E res \in {"Ok", "Err"} : NotifierReturns(res)

SendSpec == SendInit /\ [][SendNext]_vars

----------------------------------------------------------------------------
\* NotifySpec: handle_connection over one connection whose peer wrote
\* `stream` and closed, in a build for each target; notify::show is the
\* variant the build target selects (notify/mod.rs).

TargetOs == {"macos", "linux", "windows", "other"}

\* notify::linux::show
LinuxShow == "Linux notifications not yet implemented"

\* notify::windows::show
WindowsShow == "Windows notifications not yet implemented"

\* The arm of notify::show compiled for a target that is none of the three.
OtherShow == "Notifications not supported on this platform"

\* Variant of Show: the stub of a target without support returns Ok(()).
ShowSilent(os) == IF os = "macos" THEN "native" ELSE "Ok"

\* notify::show up to its first step: the value it returns at once, or
\* "native" when it goes on into macos::show, which talks to the OS.
Show(os) ==
  CASE os = "macos" -> "native"
    [] os = "linux" -> LinuxShow
    [] os = "windows" -> WindowsShow
    [] OTHER -> OtherShow

StreamsUpTo(b) == UNION {[1..j -> LineKinds] : j \in 0..b}

NotifyInit ==
  /\ DaemonOff
  /\ RaceOff
  /\ CodecOff
  /\ SendOff
  /\ InstallOff
  /\ PromptOff
  /\ TruncOff
  /\ targetOs \in TargetOs
  /\ stream \in StreamsUpTo(MaxStream)
  /\ hpc = "read"
  /\ hpos = 0
  /\ osCalls = 0
  /\ results = <<>>
  /\ errlog = <<>>

\* Ok(Some(line)) that does not decode: error!("Failed to parse ...").
TakeUndecodable ==
  /\ hpc = "read"
  /\ hpos < Len(stream)
  /\ stream[hpos + 1] = "badjson"
  /\ hpos' = hpos + 1
  /\ errlog' = Append(errlog, "parse")
  /\ UNCHANGED <<targetOs, stream, hpc, osCalls, results>>
  /\ UNCHANGED notifyOther

\* Ok(Some(line)) that decodes: notify::show is called.  A stub returns
\* its error in the same step and the handler logs it; macos::show goes on
\* to the notification center.
TakeAndShow ==
  /\ hpc = "read"
  /\ hpos < Len(stream)
  /\ stream[hpos + 1] = "valid"
  /\ hpos' = hpos + 1
  /\ IF Show(targetOs) = "native"
     THEN /\ hpc' = "authorize"
          /\ UNCHANGED <<results, errlog>>
     ELSE /\ hpc' = "read"
          /\ results' = Append(results, Show(targetOs))
          /\ errlog' = IF Show(targetOs) = "Ok" THEN errlog
                       ELSE Append(errlog, "show")
  /\ UNCHANGED <<targetOs, stream, osCalls>>
  /\ UNCHANGED notifyOther

\* macos::request_authorization: one call into the OS; an error ends show.
Authorize(ok) ==
  /\ hpc = "authorize"
  /\ osCalls' = osCalls + 1
  /\ IF ok
     THEN /\ hpc' = "deliver"
          /\ UNCHANGED <<results, errlog>>
     ELSE /\ hpc' = "read"
          /\ results' = Append(results, "Authorization error")
          /\ errlog' = Append(errlog, "show")
  /\ UNCHANGED <<targetOs, stream, hpos>>
  /\ UNCHANGED notifyOther

\* macos::show: addNotificationRequest and the wait for its completion.
Deliver(ok) ==
  /\ hpc = "deliver"
  /\ osCalls' = osCalls + 1
  /\ hpc' = "read"
  /\ results' = Append(results, IF ok THEN "Ok"
                                 ELSE "Failed to show notification")
  /\ errlog' = IF ok THEN errlog ELSE Append(errlog, "show")
  /\ UNCHANGED <<targetOs, stream, hpos>>
  /\ UNCHANGED notifyOther

\* next_line().await? on bytes that are not UTF-8: the handler returns Err.
TakeReadErr ==
  /\ hpc = "read"
  /\ hpos < Len(stream)
  /\ stream[hpos + 1] = "badutf8"
  /\ hpos' = hpos + 1
  /\ hpc' = "failed"
  /\ UNCHANGED <<targetOs, stream, osCalls, results, errlog>>
  /\ UNCHANGED notifyOther

\* Ok(None): the handler returns Ok(()).
TakeEof ==
  /\ hpc = "read"
  /\ hpos = Len(stream)
  /\ hpc' = "done"
  /\ UNCHANGED <<targetOs, stream, hpos, osCalls, results, errlog>>
  /\ UNCHANGED notifyOther

NotifyNext ==
  \/ TakeUndecodable
  \/ TakeAndShow
  \/ TakeReadErr
  \/ TakeEof
  \/ \E ok \in BOOLEAN : Authorize(ok)
  \/ \E ok \in BOOLEAN : Deliver(ok)

NotifySpec == NotifyInit /\ [][NotifyNext]_vars

----------------------------------------------------------------------------
\* InstallSpec: install::claude::install and uninstall called one after the
\* other, in any order, on one settings file; is_installed is a function of
\* the file.  The file is modelled by the JSON value it holds (the layout
\* to_string_pretty gives it is left out).

\* s.contains(m) on strings given as sequences of characters.
Contains(s, m) ==
  IF Len(s) < Len(m) THEN FALSE
  ELSE \E i \in 1..(Len(s) - Len(m) + 1) : SubSeq(s, i, i + Len(m) - 1) = m

HOOK_MARKER == <<"a", "h", "o", "y">>

\* ahoy_bin_path(): config::bin_dir().join("ahoy"), with "/b" standing for
\* the bin directory.
AhoyBinPath == <<"/", "b", "/">> \o HOOK_MARKER

\* The two command lines install writes, with " -c" standing for
\* " send --from-claude -t 'Claude Code' --activate ..." and " -w" for
\* " send -t 'Claude Code' 'Waiting for your input' --activate ...".
FromClaudeCommand == AhoyBinPath \o <<" ", "-", "c">>
WaitingCommand == AhoyBinPath \o <<" ", "-", "w">>

\* An entry of a hook array: its matcher and, when it has a "hooks" array,
\* the commands of that array's items.
Entry(matcher, hooks) == [matcher |-> matcher, hooks |-> hooks]

CreateStopHook == Entry("", Some(<<FromClaudeCommand>>))

CreateNotificationHooks ==
  << Entry("idle_prompt", Some(<<WaitingCommand>>)),
     Entry("permission_prompt", Some(<<FromClaudeCommand>>)) >>

\* Entries a settings file can hold that install did not write: the hook
\* of another tool, the hook of another tool whose command line has the
\* letters "ahoy" in it (a script under /mahoy), and an entry without a
\* "hooks" array.
OtherTool == Entry("", Some(<< <<"/", "b", "/", "l", "i", "n", "t">> >>))
OtherToolAhoyPath == Entry("", Some(<< <<"/", "m", "a", "h", "o", "y", "/", "x">> >>))
Bare == Entry("", None)

Entries ==
  {CreateStopHook, CreateNotificationHooks[1], CreateNotificationHooks[2],
   OtherTool, OtherToolAhoyPath, Bare}

\* A member of the hooks object: absent, a value that is not an array, or
\* an array of entries.
Absent == [k |-> "absent", a |-> <<>>]
NotArray == [k |-> "other", a |-> <<>>]
Arr(a) == [k |-> "arr", a |-> a]

\* The settings value: top is "obj" or "other" (not a JSON object); hooks is
\* "absent", "other" (not an object) or "obj" with its two members.
Settings(top, hooks, stop, notification) ==
  [top |-> top, hooks |-> hooks, Stop |-> stop, Notification |-> notification]

\* json!({})
EmptyObject == Settings("obj", "absent", Absent, Absent)

File(k, v) == [k |-> k, v |-> v]
Missing == File("missing", EmptyObject)
Garbage == File("garbage", EmptyObject)

\* hook.get("hooks").and_then(as_array).map(any command contains the
\* marker).unwrap_or(false)
ContainsAhoyMarker(hook) ==
  /\ hook.hooks # None
  /\ \E j \in 1..Len(hook.hooks[1]) : Contains(hook.hooks[1][j], HOOK_MARKER)

RECURSIVE Retain(_)
\* retain(|hook| !contains_ahoy_marker(hook))
Retain(a) ==
  IF a = <<>> THEN <<>>
  ELSE IF ContainsAhoyMarker(a[Len(a)]) THEN Retain(SubSeq(a, 1, Len(a) - 1))
       ELSE Append(Retain(SubSeq(a, 1, Len(a) - 1)), a[Len(a)])

Plan(res, write, v) == [res |-> res, write |-> write, v |-> v]

\* A member of hooks as install finds it after "get or create".
OrEmpty(s, member) ==
  IF s.hooks = "absent" \/ member.k = "absent" THEN Arr(<<>>) ELSE member

\* Variant of Install: the file is written once the Stop hook is pushed,
\* before the Notification member is looked at.
InstallWriteStopFirst(f) ==
  IF f.k = "garbage" THEN Plan("Err_parse", FALSE, f.v)
  ELSE LET s == IF f.k = "missing" THEN EmptyObject ELSE f.v
           stop == OrEmpty(s, s.Stop)
           notification == OrEmpty(s, s.Notification)
       IN IF s.top # "obj" THEN Plan("Err_not_object", FALSE, s)
          ELSE IF s.hooks = "other" THEN Plan("Err_hooks", FALSE, s)
          ELSE IF stop.k # "arr" THEN Plan("Err_stop", FALSE, s)
          ELSE IF \E i \in 1..Len(stop.a) : ContainsAhoyMarker(stop.a[i])
               THEN Plan("Ok", FALSE, s)
          ELSE IF notification.k # "arr"
               THEN Plan("Err_notification", TRUE,
                         Settings("obj", "obj",
                                  Arr(Append(stop.a, CreateStopHook)),
                                  s.Notification))
          ELSE Plan("Ok", TRUE,
                    Settings("obj", "obj",
                             Arr(Append(stop.a, CreateStopHook)),
                             Arr(notification.a \o CreateNotificationHooks)))

\* install() up to fs::write: the result it returns without writing, or
\* the value it is about to write.
Install(f) ==
  IF f.k = "garbage" THEN Plan("Err_parse", FALSE, f.v)
  ELSE LET s == IF f.k = "missing" THEN EmptyObject ELSE f.v
           stop == OrEmpty(s, s.Stop)
           notification == OrEmpty(s, s.Notification)
       IN IF s.top # "obj" THEN Plan("Err_not_object", FALSE, s)
          ELSE IF s.hooks = "other" THEN Plan("Err_hooks", FALSE, s)
          ELSE IF stop.k # "arr" THEN Plan("Err_stop", FALSE, s)
          ELSE IF \E i \in 1..Len(stop.a) : ContainsAhoyMarker(stop.a[i])
               THEN Plan("Ok", FALSE, s)
          ELSE IF notification.k # "arr"
               THEN Plan("Err_notification", FALSE, s)
          ELSE Plan("Ok", TRUE,
                    Settings("obj", "obj",
                             Arr(Append(stop.a, CreateStopHook)),
                             Arr(notification.a \o CreateNotificationHooks)))

\* Variant of Uninstall: only the Stop array is cleaned.
UninstallStopOnly(f) ==
  IF f.k = "missing" THEN Plan("Ok", FALSE, f.v)
  ELSE IF f.k = "garbage" THEN Plan("Err_parse", FALSE, f.v)
  ELSE IF f.v.top # "obj" \/ f.v.hooks # "obj" THEN Plan("Ok", FALSE, f.v)
  ELSE LET s == f.v
           stop == IF s.Stop.k = "arr" THEN Arr(Retain(s.Stop.a)) ELSE s.Stop
       IN Plan("Ok", Len(stop.a) < Len(s.Stop.a),
               Settings("obj", "obj", stop, s.Notification))

\* uninstall() up to fs::write.
Uninstall(f) ==
  IF f.k = "missing" THEN Plan("Ok", FALSE, f.v)
  ELSE IF f.k = "garbage" THEN Plan("Err_parse", FALSE, f.v)
  ELSE IF f.v.top # "obj" \/ f.v.hooks # "obj" THEN Plan("Ok", FALSE, f.v)
  ELSE LET s == f.v
           stop == IF s.Stop.k = "arr" THEN Arr(Retain(s.Stop.a)) ELSE s.Stop
           notification == IF s.Notification.k = "arr"
                           THEN Arr(Retain(s.Notification.a))
                           ELSE s.Notification
           removed_stop == Len(stop.a) < Len(s.Stop.a)
           removed_notification == Len(notification.a) < Len(s.Notification.a)
       IN Plan("Ok", removed_stop \/ removed_notification,
               Settings("obj", "obj", stop, notification))

\* is_installed()
IsInstalled(f) ==
  /\ f.k = "json"
  /\ f.v.top = "obj"
  /\ f.v.hooks = "obj"
  /\ f.v.Stop.k = "arr"
  /\ \E i \in 1..Len(f.v.Stop.a) : ContainsAhoyMarker(f.v.Stop.a[i])

\* fs::write: it replaces the content; or the file cannot be opened for
\* writing and stays as it was; or it is truncated and the write fails.
WriteOutcomes == {"written", "refused", "torn"}

AfterWrite(f, v, out) ==
  CASE out = "written" -> File("json", v)
    [] out = "refused" -> f
    [] OTHER -> Garbage

\* What the call returns once it has reached fs::write(..)?.
WriteResult(res, out) ==
  IF res = "Ok" /\ out # "written" THEN "Err_write" ELSE res

ArraysUpTo(b) == UNION {[1..j -> Entries] : j \in 0..b}

HookMembers(b) == {Absent, NotArray} \cup {Arr(a) : a \in ArraysUpTo(b)}

\* The settings values whose two hook arrays hold at most b entries together.
SettingsUpTo(b) ==
  {Settings("other", "absent", Absent, Absent), EmptyObject,
   Settings("obj", "other", Absent, Absent)}
  \cup UNION {{Settings("obj", "obj", stop, notification) :
                 notification \in HookMembers(b - Len(stop.a))} :
               stop \in HookMembers(b)}

InstallInit ==
  /\ DaemonOff
  /\ RaceOff
  /\ CodecOff
  /\ SendOff
  /\ NotifyOff
  /\ PromptOff
  /\ TruncOff
  /\ \/ sfile = Missing /\ sdir \in BOOLEAN
     \/ sfile = Garbage /\ sdir = TRUE
     \/ /\ \E v \in SettingsUpTo(MaxEntries) : sfile = File("json", v)
        /\ sdir = TRUE
  /\ start = sfile
  /\ prev = sfile
  /\ lastOp = "none"
  /\ lastRes = "none"
  /\ wrote = FALSE
  /\ prevOp = "none"
  /\ prevRes = "none"
  /\ allOk = TRUE

\* What a call leaves behind: the file, and the record of the call.
Called(op, res, reachedWrite, f) ==
  /\ sfile' = f
  /\ prev' = sfile
  /\ prevOp' = lastOp
  /\ prevRes' = lastRes
  /\ lastOp' = op
  /\ lastRes' = res
  /\ wrote' = reachedWrite
  /\ allOk' = (allOk /\ res = "Ok")
  /\ UNCHANGED start
  /\ UNCHANGED installOther

\* install() while no settings file exists and create_dir_all fails.
InstallNoDir ==
  /\ lastOp # "off"
  /\ sfile = Missing
  /\ ~sdir
  /\ UNCHANGED sdir
  /\ Called("install", "Err_mkdir", FALSE, sfile)

\* install() to its return.
InstallCall(out) ==
  /\ lastOp # "off"
  /\ sdir' = TRUE
  /\ LET p == Install(sfile)
     IN IF p.write
        THEN Called("install", WriteResult(p.res, out), TRUE,
                    AfterWrite(sfile, p.v, out))
        ELSE /\ out = "written"
             /\ Called("install", p.res, FALSE, sfile)

\* uninstall() to its return.
UninstallCall(out) ==
  /\ lastOp # "off"
  /\ UNCHANGED sdir
  /\ LET p == Uninstall(sfile)
     IN IF p.write
        THEN Called("uninstall", WriteResult(p.res, out), TRUE,
                    AfterWrite(sfile, p.v, out))
        ELSE /\ out = "written"
             /\ Called("uninstall", p.res, FALSE, sfile)

InstallNext ==
  \/ InstallNoDir
  \/ \E out \in WriteOutcomes : InstallCall(out)
  \/ \E out \in WriteOutcomes : UninstallCall(out)

InstallSpec == InstallInit /\ [][InstallNext]_vars

----------------------------------------------------------------------------
\* PromptSpec: one call of extract_last_prompt on a transcript file.  Texts
\* are sequences of characters over {"p", " ", LF}.

SPC == " "

\* A line of the file as the loop sees it:
\*   "empty"   the empty line
\*   "badutf8" bytes that are not UTF-8 (reader.lines() yields Err)
\*   "notjson" text serde_json rejects for TranscriptLine
\*   "entry"   a TranscriptLine: user tells whether its type is "user", and
\*             c is message.content: "none" (no message, or no content),
\*             "str" with text s, "arr" with items a (Some(text) for an
\*             item whose "text" is a string, None for any other item), or
\*             "other" (a number, an object, ...)
Content(k, s, a) == [k |-> k, s |-> s, a |-> a]
TLine(k, user, c) == [k |-> k, user |-> user, c |-> c]

NoContent == Content("none", <<>>, <<>>)
EmptyLine == TLine("empty", FALSE, NoContent)
BadUtf8Line == TLine("badutf8", FALSE, NoContent)
NotJsonLine == TLine("notjson", FALSE, NoContent)

\* text.lines().next().unwrap_or(&text): the text up to its first newline.
RECURSIVE FirstLine(_)
FirstLine(t) ==
  IF t = <<>> \/ t[1] = LF THEN <<>> ELSE <<t[1]>> \o FirstLine(Tail(t))

RECURSIVE TrimStart(_)
TrimStart(t) ==
  IF t # <<>> /\ t[1] \in {SPC, LF} THEN TrimStart(Tail(t)) ELSE t

RECURSIVE TrimEnd(_)
TrimEnd(t) ==
  IF t # <<>> /\ t[Len(t)] \in {SPC, LF}
  THEN TrimEnd(SubSeq(t, 1, Len(t) - 1)) ELSE t

\* str::trim
Trim(t) == TrimEnd(TrimStart(t))

\* filter_map(text as str).collect().join(" ")
RECURSIVE Join(_)
Join(items) ==
  IF items = <<>> THEN <<>>
  ELSE LET rest == Join(Tail(items))
           texts == SelectSeq(Tail(items), LAMBDA x : x # None)
       IN IF items[1] = None THEN rest
          ELSE IF texts = <<>> THEN items[1][1]
          ELSE items[1][1] \o <<SPC>> \o rest

\* The match on content: the text of a string or an array.
TextOf(c) == IF c.k = "str" THEN c.s ELSE Join(c.a)

\* The loop of extract_last_prompt over the lines from i on, with
\* last_user_content = last.
RECURSIVE Scan(_, _, _)
Scan(ls, i, last) ==
  IF i > Len(ls)
  THEN IF last = None THEN [ok |-> FALSE, s |-> <<>>]
       ELSE [ok |-> TRUE, s |-> last[1]]
  ELSE LET l == ls[i]
       IN IF l.k = "badutf8" THEN [ok |-> FALSE, s |-> <<>>]
          ELSE IF l.k = "entry" /\ l.user /\ l.c.k \in {"str", "arr"}
                  /\ Trim(FirstLine(TextOf(l.c))) # <<>>
               THEN Scan(ls, i + 1, Some(Trim(FirstLine(TextOf(l.c)))))
          ELSE Scan(ls, i + 1, last)

\* extract_last_prompt
ExtractLastPrompt(open, ls) ==
  IF ~open THEN [ok |-> FALSE, s |-> <<>>] ELSE Scan(ls, 1, None)

\* The texts and the lines the transcripts are drawn from.
Texts ==
  {<<>>, <<"p">>, <<SPC>>, <<SPC, "p">>, <<"p", SPC>>, <<LF, "p">>,
   <<"p", LF, "p">>, <<"p", "p">>}

Items == {None, Some(<<"p">>), Some(<<>>), Some(<<LF, "p">>)}

Contents ==
  {NoContent, Content("other", <<>>, <<>>)}
  \cup {Content("str", t, <<>>) : t \in Texts}
  \cup {Content("arr", <<>>, a) : a \in UNION {[1..j -> Items] : j \in 0..2}}

TLines ==
  {EmptyLine, BadUtf8Line, NotJsonLine,
   TLine("entry", FALSE, Content("str", <<"p">>, <<>>))}
  \cup {TLine("entry", TRUE, c) : c \in Contents}

PromptInit ==
  /\ DaemonOff
  /\ RaceOff
  /\ CodecOff
  /\ SendOff
  /\ NotifyOff
  /\ InstallOff
  /\ TruncOff
  /\ openable \in BOOLEAN
  /\ \E n \in 0..MaxLines : transcript \in [1..n -> TLines]
  /\ xpc = "start"
  /\ prompt = <<>>

Extract ==
  /\ xpc = "start"
  /\ xpc' = "returned"
  /\ prompt' = ExtractLastPrompt(openable, transcript)
  /\ UNCHANGED <<transcript, openable>>
  /\ UNCHANGED promptOther

PromptNext == Extract

PromptSpec == PromptInit /\ [][PromptNext]_vars

----------------------------------------------------------------------------
\* TruncSpec: the two truncation steps of build_from_claude_stdin_reader.
\* A text is a sequence of characters: "a" stands for a character of one
\* byte in UTF-8, "W" for one of two bytes, "." for the dot of the "..."
\* the code appends.

Width(ch) == IF ch = "W" THEN 2 ELSE 1

\* The bytes of the first k characters of s.
RECURSIVE BytesUpTo(_, _)
BytesUpTo(s, k) == IF k = 0 THEN 0 ELSE BytesUpTo(s, k - 1) + Width(s[k])

\* str::len: the length in bytes.
ByteLen(s) == BytesUpTo(s, Len(s))

\* &s[..n] for n <= s.len(): the characters of the first n bytes, or a
\* panic when byte n is inside a character.
Slice(s, n) ==
  LET ends == {k \in 0..Len(s) : BytesUpTo(s, k) = n}
  IN IF ends = {} THEN [panic |-> TRUE, s |-> <<>>]
     ELSE [panic |-> FALSE, s |-> SubSeq(s, 1, CHOOSE k \in ends : TRUE)]

Dots == <<".", ".", ".">>

\* if s.len() > max { format!("{}...", &s[..keep]) } else { s }
Truncate(s, max, keep) ==
  IF ByteLen(s) > max
  THEN LET r == Slice(s, keep)
       IN [panic |-> r.panic, s |-> IF r.panic THEN <<>> ELSE r.s \o Dots]
  ELSE [panic |-> FALSE, s |-> s]

\* The limits of the tool description and of the last prompt.
ToolDescMax == 60
ToolDescKeep == 57
PromptMax == 100
PromptKeep == 97

\* The text made of x, then b, then c characters of one, two and one bytes.
Runs(x, b, c) ==
  [i \in 1..(x + b + c) |-> IF i > x /\ i <= x + b THEN "W" ELSE "a"]

TruncInit ==
  /\ DaemonOff
  /\ RaceOff
  /\ CodecOff
  /\ SendOff
  /\ NotifyOff
  /\ InstallOff
  /\ PromptOff
  /\ hasTool \in BOOLEAN
  /\ \E x \in 0..1 : \E b \in 0..((MaxBytes - x) \div 2) :
       \E c \in 0..(MaxBytes - x - 2 * b) : text = Runs(x, b, c)
  /\ tpc = "start"
  /\ part = <<>>

\* build_from_claude_stdin_reader from the description (or the last
\* prompt) to the piece of the body made from it.
BuildPart ==
  /\ tpc = "start"
  /\ LET r == IF hasTool THEN Truncate(text, ToolDescMax, ToolDescKeep)
              ELSE Truncate(text, PromptMax, PromptKeep)
     IN /\ tpc' = IF r.panic THEN "panicked" ELSE "returned"
        /\ part' = r.s
  /\ UNCHANGED <<hasTool, text>>
  /\ UNCHANGED truncOther

TruncNext == BuildPart

TruncSpec == TruncInit /\ [][TruncNext]_vars

----------------------------------------------------------------------------
\* Properties

Range(s) == {s[i] : i \in 1..Len(s)}

\* Indices of the valid lines among the first n lines of s, in stream order.
RECURSIVE ValidIdx(_, _)
ValidIdx(s, n) ==
  IF n = 0 THEN <<>>
  ELSE IF s[n] = "valid" THEN Append(ValidIdx(s, n - 1), n)
       ELSE ValidIdx(s, n - 1)

AllValid(c) == ValidIdx(sent[c], Len(sent[c]))

AnyHung == \E c \in Conns : hung[c]

\* C1: when a handler has ended without a transport error, the notifier was
\* called exactly once, in order, for each line of the connection that
\* decodes, and for no other line: a malformed line never ends the handler
\* before the lines that follow it are processed.
C1_EveryDecodableLineDispatched ==
  \A c \in Conns :
    (pc[c] \in Ended /\ rerr[c] # "io") => shown[c] = AllValid(c)

\* C2: within one connection the notifier calls are made for the decoded
\* lines in arrival order, and only the most recent call can still be
\* running: every earlier call returned before the next one started.
C2_InOrderDispatch ==
  \A c \in Conns :
    /\ shown[c] = ValidIdx(sent[c], pos[c])
    /\ \A i \in 1..Len(shown[c]) : \A j \in 1..Len(shown[c]) :
         i < j => shown[c][i] < shown[c][j]
    /\ inflight[c] \subseteq (IF shown[c] = <<>> THEN {} ELSE {shown[c][Len(shown[c])]})

\* two lines of one connection dispatched, the handler done
C2_Witness ==
  \E c \in Conns : Len(shown[c]) >= 2 /\ pc[c] = "done"

\* C3: a notifier error is only logged: a handler whose notifier call failed
\* stops only for end of stream or a read error, has then processed every
\* line up to that point, and the listener is still accepting.
C3_NotifierErrorAbsorbed ==
  \A c \in Conns :
    showErr[c] # {} =>
      /\ lpc = "accept"
      /\ exitErr = "none"
      /\ pc[c] = "failed" => rerr[c] # "none"
      /\ pc[c] = "done" => /\ pos[c] = Len(sent[c])
                           /\ shown[c] = AllValid(c)
      /\ pc[c] \in {"read", "show", "done", "failed"}

\* a notifier call failed, a later line was dispatched and the handler ran
\* to the end of the stream
C3_Witness ==
  \E c \in Conns : \E i \in showErr[c] :
    /\ pc[c] = "done"
    /\ \E j \in Range(shown[c]) : j > i

\* A handler that ended without a read error of its own, on a connection
\* carrying one valid line, has dispatched that line exactly once.
C4_Safety ==
  \A c \in Conns :
    (sent[c] = <<"valid">> /\ pc[c] \in Ended /\ rerr[c] = "none")
      => pc[c] = "done" /\ shown[c] = <<1>>

\* A live handler with an arrived line it has not taken, no call hanging.
Behind(c) == pc[c] \in {"read", "show"} /\ pos[c] < Len(sent[c]) /\ ~AnyHung

\* C4: two connections, each carrying one valid line: whenever a handler has
\* ended without a read error of its own, its line was dispatched exactly
\* once, whatever happened on the other connection (notifier error, decode
\* error, read error); and no handler leaves a line that has arrived unread
\* for ever, unless a notifier call hangs.
C4_IndependentDispatch ==
  /\ []C4_Safety
  /\ \A c \in Conns : []<>(~Behind(c))

\* both lines dispatched, the notifier having failed on one connection only
C4_Witness ==
  \E c \in Conns : \E d \in Conns \ {c} :
    /\ sent[c] = <<"valid">> /\ sent[d] = <<"valid">>
    /\ pc[c] = "done" /\ pc[d] = "done"
    /\ shown[c] = <<1>> /\ shown[d] = <<1>>
    /\ showErr[c] = {1} /\ showErr[d] = {}

\* C5: when the only handler inside a notifier call is one whose call never
\* returns, every other handler with a line to read can still take it and
\* the listener can still accept a pending connection.
C5_HungCallStallsOnlyItsHandler ==
  \A c \in Conns :
    (hung[c] /\ Blocked = {c}) =>
      \A d \in Conns \ {c} :
        /\ (pc[d] = "read" /\ NextLine(d) = "line") => ENABLED HandleLine(d)
        /\ (lpc = "accept" /\ Oldest(d)) => ENABLED AcceptOk(d)

\* C6: every accepted connection has exactly one handler task, no other
\* connection has one, and once bound the listener is always at accept: it
\* has no state in which it waits for a handler.
C6_OneHandlerPerAccept ==
  /\ spawned = Cardinality({c \in Conns : conn[c] = "accepted"})
  /\ \A c \in Conns : pc[c] # "none" <=> conn[c] = "accepted"
  /\ artifact = "live" => lpc = "accept"

\* a second connection is accepted while the first handler, with a line
\* waiting, has not taken a step
C6_Witness ==
  /\ conn[1] = "accepted" /\ pc[1] = "read" /\ pos[1] = 0 /\ Len(sent[1]) > 0
  /\ conn[2] = "accepted" /\ pc[2] = "read"
  /\ spawned = 2

\* C7: after a failed accept the listener is still in its loop and
\* server::run has not returned.
C7_AcceptErrorAbsorbed ==
  acceptFailed => lpc = "accept" /\ exitErr = "none"

\* accept failed while a connection was pending, and every connection was
\* then accepted and handled to the end
C7_Witness ==
  /\ acceptFailed
  /\ \A c \in Conns : conn[c] = "accepted" /\ pc[c] = "done" /\ shown[c] # <<>>

\* C8: an artifact at the socket path is gone when bind is called, and the
\* daemon does not give up with the artifact still in place.
C8_ArtifactRemovedBeforeBind ==
  /\ lpc = "bind" => artifact = "none"
  /\ lpc = "exited" => artifact = "none"

\* C9 as stated: the daemon ends with an error only for a failed bind.
C9_ExitOnlyOnBindFailure ==
  lpc = "exited" => exitErr = "bind"

\* C9 amended: the daemon ends with an error only from a startup step (home
\* directory, removal of the artifact, bind), before any connection exists;
\* bind is called at most once and its failure is returned at once; no
\* accept, decode, notifier or read failure ends the daemon.
C9_ExitOnlyOnStartupFailure ==
  /\ lpc = "exited" <=> exitErr # "none"
  /\ lpc = "exited" =>
       /\ exitErr \in {"nohome", "home", "remove", "bind"}
       /\ spawned = 0 /\ ~acceptFailed
       /\ \A c \in Conns : conn[c] = "none" /\ pc[c] = "none"
  /\ binds <= 1
  /\ exitErr = "bind" <=> (binds = 1 /\ artifact # "live")
  /\ (acceptFailed \/ \E c \in Conns : rerr[c] # "none" \/ showErr[c] # {}
                                       \/ pos[c] > Len(shown[c]))
       => lpc = "accept"

\* the single bind failed and the daemon ended
C9_Witness ==
  lpc = "exited" /\ exitErr = "bind" /\ binds = 1

\* A handler returns Ok only at end of stream, with every line read (none
\* dispatched when there was none), and returns Err only when a read failed.
C10_Safety ==
  \A c \in Conns :
    /\ pc[c] = "done" => /\ closed[c]
                         /\ pos[c] = Len(sent[c])
                         /\ rerr[c] = "none"
                         /\ sent[c] = <<>> => shown[c] = <<>>
    /\ pc[c] = "failed" => rerr[c] \in {"io", "utf8"}
    /\ rerr[c] # "none" => pc[c] = "failed"

\* A live handler whose peer has closed the stream, no call hanging.
Owing(c) == pc[c] \in {"read", "show"} /\ closed[c] /\ ~AnyHung

\* C10: a handler ends when, and only when, its stream is at end of file or
\* a read returned an error; a handler whose peer has closed the stream does
\* not stay unfinished for ever, unless a notifier call hangs.  (Closed,
\* ended and hung are permanent, so this is "closed leads to ended or hung".)
C10_EndsAtEofOrReadError ==
  /\ []C10_Safety
  /\ \A c \in Conns : []<>(~Owing(c))

\* a connection that carried no line and was closed: the handler is done,
\* with no dispatch
C10_Witness ==
  \E c \in Conns : pc[c] = "done" /\ sent[c] = <<>> /\ shown[c] = <<>>

Observes(c) == <<reply[c], pc[c] \in Ended>>

\* A step in which the outcome of a record of connection c is settled: the
\* line is read and fails to decode, or the notifier call made for it returns
\* (displayed, or failed to display).
Settles(c) ==
  \/ /\ pos'[c] = pos[c] + 1
     /\ sent[c][pos'[c]] = "badjson"
  \/ pc[c] = "show" /\ pc'[c] # "show"

StringsOf(n) ==
  {n.title, n.body} \cup Range(n.icon) \cup Range(n.activate)
  \cup DOMAIN n.metadata
  \cup {n.metadata[key].s : key \in DOMAIN n.metadata}

NoNewline(n) == \A s \in StringsOf(n) : LF \notin Range(s)

\* C16: round trip: a Notification none of whose strings holds a newline,
\* encoded and then decoded, comes back equal in title, body, icon, activate
\* and metadata.
C16_RoundTrip ==
  (cmode = "enc" /\ cpc \in {"decoded", "served"} /\ NoNewline(notif))
    => decoded = [ok |-> TRUE, n |-> notif]

\* a Notification with every field present, its title a backslash followed
\* by the letter n, came back equal
C16_Witness ==
  /\ cmode = "enc" /\ cpc = "decoded"
  /\ notif.title = <<BSL, "n">>
  /\ notif.icon # None /\ notif.activate # None
  /\ MetaKey1 \in DOMAIN notif.metadata
  /\ decoded = [ok |-> TRUE, n |-> notif]

\* The members of the object the text t holds, in text order.
TopMembers(t) == ParseValue(t, 1).v.m

\* The keys an encoded Notification n is to have, in the order of the fields.
KeysWanted(n) ==
  << <<"title">>, <<"body">> >>
  \o (IF n.icon = None THEN <<>> ELSE << <<"icon">> >>)
  \o (IF n.activate = None THEN <<>> ELSE << <<"activate">> >>)
  \o (IF DOMAIN n.metadata = {} THEN <<>> ELSE << <<"metadata">> >>)

\* C17: omission: the encoded record has the keys title and body, and the
\* keys icon, activate, metadata exactly for those that are Some / not empty;
\* no member of it is null, and a metadata member is an object with entries.
C17_Omission ==
  (cmode = "enc" /\ cpc # "start") =>
    LET ms == TopMembers(line)
    IN /\ ParseValue(line, 1).ok
       /\ [j \in 1..Len(ms) |-> ms[j][1]] = KeysWanted(notif)
       /\ \A j \in 1..Len(ms) :
            /\ ms[j][2].k # "null"
            /\ ms[j][1] = <<"metadata">> =>
                 (ms[j][2].k = "obj" /\ ms[j][2].m # <<>>)

\* a Notification with an icon, no activate and no metadata: the record has
\* the three keys title, body, icon
C17_Witness ==
  /\ cmode = "enc" /\ cpc = "encoded"
  /\ notif.icon # None /\ notif.activate = None /\ DOMAIN notif.metadata = {}
  /\ Len(TopMembers(line)) = 3

\* C18: a well-formed record with a string title and a string body decodes
\* whichever of icon, activate and metadata are absent (those present being
\* of the right kind): an absent icon or activate gives None, an absent
\* metadata the empty map.
C18_OptionalFieldsMayBeAbsent ==
  (/\ cmode = "dec" /\ cpc \in {"decoded", "served"}
   /\ damage = "none" /\ shape.top = "obj"
   /\ shape.title = "str" /\ shape.body = "str"
   /\ shape.icon \in {"absent", "str"}
   /\ shape.activate \in {"absent", "str"}
   /\ shape.metadata \in {"absent", "obj", "obj1"})
    => /\ decoded.ok
       /\ decoded.n.title = <<"n">> /\ decoded.n.body = <<"n">>
       /\ decoded.n.icon = (IF shape.icon = "absent" THEN None ELSE Some(<<"n">>))
       /\ decoded.n.activate =
            (IF shape.activate = "absent" THEN None ELSE Some(<<"n">>))
       /\ shape.metadata \in {"absent", "obj"} => decoded.n.metadata = EmptyMap
       /\ shape.metadata = "obj1" => DOMAIN decoded.n.metadata = {MetaKey1}

\* a record with title, body and an unknown key only was decoded
C18_Witness ==
  /\ cmode = "dec" /\ cpc = "decoded" /\ damage = "none"
  /\ shape.top = "obj" /\ shape.title = "str" /\ shape.body = "str"
  /\ shape.icon = "absent" /\ shape.activate = "absent"
  /\ shape.metadata = "absent" /\ shape.other = "null"
  /\ decoded.ok /\ decoded.n.metadata = EmptyMap

\* The record is not syntactically valid, or its title or body is missing
\* or is not a string.
Undecodable ==
  \/ damage # "none"
  \/ shape.top # "obj"
  \/ shape.title \in {"absent", "null", "num", "obj"}
  \/ shape.body \in {"absent", "null", "num", "obj"}

\* C19: such a record fails to decode, no Notification comes of it, and a
\* handler reading it from a connection calls the notifier for nothing.
C19_DecodeError ==
  (cmode = "dec" /\ cpc \in {"decoded", "served"} /\ Undecodable)
    => /\ decoded = DecodeErr
       /\ cpc = "served" => calls = <<>>

\* a well-formed record whose title is a number was read by a handler
C19_Witness ==
  /\ cmode = "dec" /\ cpc = "served" /\ damage = "none"
  /\ shape.top = "obj" /\ shape.title = "num" /\ shape.body = "str"
  /\ ~decoded.ok /\ calls = <<>>

\* C20: the encoded record of any Notification, one with newlines in its
\* strings included, holds no newline: followed by its terminator it is one
\* line to a line reader, and a handler reading it calls the notifier once,
\* with that Notification.
C20_OneLinePerRecord ==
  (cmode = "enc" /\ cpc # "start") =>
    /\ LF \notin Range(line)
    /\ SplitLines(Append(line, LF), <<>>) = <<line>>
    /\ cpc = "served" => calls = <<notif>>

\* a Notification with a newline in its title, in its icon and in a metadata
\* key was read by a handler
C20_Witness ==
  /\ cmode = "enc" /\ cpc = "served"
  /\ notif.title = <<LF>> /\ notif.icon = Some(<<LF>>)
  /\ MetaKey2 \in DOMAIN notif.metadata
  /\ calls = <<notif>>

\* C13: a send that has a Notification to deliver while nothing listens at
\* the socket path returns an error that names the path, after one connect
\* attempt.
C13_UnreachableDaemonFails ==
  (spc = "returned" /\ ~listening /\ built # None)
    => (result = "Err_connect" /\ connects = 1)

\* C14: once a Notification is built the notifier is called in-process
\* exactly once, with that Notification, no connect is made on the daemon
\* socket, and send::run returns Ok exactly when the notifier did and the
\* notifier's error otherwise; when no Notification could be built the
\* notifier is not called and the source's error is returned.
C14_DirectPath ==
  /\ connects = 0
  /\ Len(shownWith) <= 1
  /\ built = None <=> shownWith = <<>>
  /\ built # None =>
       /\ shownWith[1].title = built[1].title
       /\ shownWith[1].body = built[1].body
       /\ shownWith[1].icon = built[1].icon
       /\ shownWith[1].metadata = built[1].metadata
  /\ spc = "returned" =>
       /\ built # None => /\ notifierRes # "none"
                          /\ result = "Ok" <=> notifierRes = "Ok"
                          /\ result = "Err_notifier" <=> notifierRes = "Err"
       /\ built = None => /\ result \in {"Err_build", "Err_no_source"}
                          /\ notifierRes = "none"

\* a literal message sent while a daemon is listening: the notifier was
\* called once in-process, failed, and send::run returned its error
C14_Witness ==
  /\ spc = "returned" /\ listening
  /\ ~argFromClaude /\ argJson = None /\ argMessage # None
  /\ shownWith = <<New(argTitle, argMessage[1])>>
  /\ notifierRes = "Err" /\ result = "Err_notifier" /\ connects = 0

\* C15: the Notification handed to the notifier has the override as its
\* activate when one is given, whatever the built Notification had, and the
\* built Notification's activate otherwise.
C15_ActivateOverride ==
  built # None =>
    shownWith[1].activate =
      (IF argActivate # None THEN argActivate ELSE built[1].activate)

\* a JSON blob carrying one activation target was sent with another as the
\* override: the notifier got the override
C15_Witness ==
  /\ spc = "returned"
  /\ argJson # None /\ ~argFromClaude
  /\ built # None /\ built[1].activate = Some(<<"n">>)
  /\ argActivate = Some(<<QUOTE>>)
  /\ shownWith[1].activate = Some(<<QUOTE>>)


\* What the handler has logged after the first n lines of s when every
\* notify::show call failed: one entry per line, in stream order.
RECURSIVE LogOf(_, _)
LogOf(s, n) ==
  IF n = 0 THEN <<>>
  ELSE LogOf(s, n - 1) \o (CASE s[n] = "valid" -> <<"show">>
                             [] s[n] = "badjson" -> <<"parse">>
                             [] OTHER -> <<>>)

NotImplemented == {LinuxShow, WindowsShow, OtherShow}

\* C21: in a build for a target without notification support every
\* notify::show call returns, in the step of the call, the target's
\* not-implemented / not-supported error, no call into the OS is ever made,
\* and the handler logs each failure and goes on with the next line (it is
\* never inside the notifier, and ends only at end of stream or on a read
\* error).
C21_UnsupportedPlatformFails ==
  targetOs # "macos" /\ hpc # "off" =>
    /\ osCalls = 0
    /\ hpc \in {"read", "done", "failed"}
    /\ Len(results) = Len(ValidIdx(stream, hpos))
    /\ \A i \in 1..Len(results) : results[i] = Show(targetOs)
                                  /\ results[i] \in NotImplemented
    /\ errlog = LogOf(stream, hpos)
    /\ hpc = "failed" => hpos > 0 /\ stream[hpos] = "badutf8"
    /\ hpc = "done" => hpos = Len(stream)

C21_Witness ==
  /\ targetOs = "linux"
  /\ hpc = "done"
  /\ stream = <<"valid", "badjson", "valid">>
  /\ results = <<LinuxShow, LinuxShow>>
  /\ errlog = <<"show", "parse", "show">>


\* The entries of a hook array that install writes.
AhoyHooks == {CreateStopHook} \cup Range(CreateNotificationHooks)

\* The entries of member m of the hooks object of file f.
EntriesOf(f, m) ==
  IF f.k = "json" /\ f.v.top = "obj" /\ f.v.hooks = "obj"
  THEN IF m = "Stop" THEN f.v.Stop.a ELSE f.v.Notification.a
  ELSE <<>>

\* The positions of a that hold an entry of S.
At(a, S) == {i \in 1..Len(a) : a[i] \in S}

AhoyCount(f, m) == Cardinality(At(EntriesOf(f, m), AhoyHooks))

\* C22: an install that follows a successful install returns Ok and leaves
\* the settings file as it found it, and after a successful install on a
\* file that started with at most one ahoy hook in Stop the Stop array
\* holds exactly one ahoy hook.
C22_InstallIdempotent ==
  /\ lastOp = "install" /\ prevOp = "install" /\ prevRes = "Ok" =>
       lastRes = "Ok" /\ sfile = prev /\ ~wrote
  /\ lastOp = "install" /\ lastRes = "Ok" /\ AhoyCount(start, "Stop") <= 1 =>
       AhoyCount(sfile, "Stop") = 1


\* C23: is_installed is false while the settings file is missing or its
\* two hook arrays hold nothing, true right after an install that returned
\* Ok, and false right after an uninstall that returned Ok, which leaves
\* no ahoy hook in the Stop array or in the Notification array.
C23_IsInstalledFollowsLastCall ==
  /\ sfile = Missing => ~IsInstalled(sfile)
  /\ EntriesOf(sfile, "Stop") = <<>> /\ EntriesOf(sfile, "Notification") = <<>>
       => ~IsInstalled(sfile)
  /\ lastOp = "install" /\ lastRes = "Ok" => IsInstalled(sfile)
  /\ lastOp = "uninstall" /\ lastRes = "Ok" =>
       /\ ~IsInstalled(sfile)
       /\ AhoyCount(sfile, "Stop") = 0
       /\ AhoyCount(sfile, "Notification") = 0

C23_Witness ==
  /\ start = Missing
  /\ prevOp = "install" /\ prevRes = "Ok" /\ IsInstalled(prev)
  /\ AhoyCount(prev, "Notification") = 2
  /\ lastOp = "uninstall" /\ lastRes = "Ok" /\ wrote
  /\ ~IsInstalled(sfile)


\* The entries of a that install did not write, in their order.
RECURSIVE Others(_)
Others(a) ==
  IF a = <<>> THEN <<>>
  ELSE IF a[Len(a)] \in AhoyHooks THEN Others(SubSeq(a, 1, Len(a) - 1))
       ELSE Append(Others(SubSeq(a, 1, Len(a) - 1)), a[Len(a)])

\* C24: a call that returns Ok leaves in the Stop array and in the
\* Notification array every entry that install did not write, unchanged
\* and in its order: uninstall takes away nothing but ahoy's own entries,
\* and install keeps what it finds.
C24_OtherHooksPreserved ==
  lastOp \in {"install", "uninstall"} /\ lastRes = "Ok" =>
    \A m \in {"Stop", "Notification"} :
      Others(EntriesOf(sfile, m)) = Others(EntriesOf(prev, m))


\* The settings the claim is about: no file, an empty object, or a Stop
\* array without an ahoy hook.
Installable(f) ==
  \/ f = Missing
  \/ f = File("json", EmptyObject)
  \/ /\ f.k = "json" /\ f.v.top = "obj" /\ f.v.hooks = "obj"
     /\ f.v.Stop.k = "arr"
     /\ AhoyCount(f, "Stop") = 0

\* C25: install on settings that are missing, empty, or whose Stop array
\* holds no ahoy hook returns Ok with the file and its directory in place,
\* the Stop array being the old one with the Stop hook appended and the
\* Notification array the old one with the idle_prompt hook and then the
\* permission_prompt hook appended (unless the file system refuses the
\* directory or the write).
C25_InstallAppendsThreeHooks ==
  lastOp = "install" /\ Installable(prev)
    /\ lastRes \notin {"Err_mkdir", "Err_write"} =>
    /\ lastRes = "Ok"
    /\ sfile.k = "json" /\ sdir
    /\ EntriesOf(sfile, "Stop") = Append(EntriesOf(prev, "Stop"), CreateStopHook)
    /\ EntriesOf(sfile, "Notification")
         = EntriesOf(prev, "Notification") \o CreateNotificationHooks
    /\ CreateNotificationHooks[1].matcher = "idle_prompt"
    /\ CreateNotificationHooks[2].matcher = "permission_prompt"


\* The Notification array of f holds the two hooks install writes, once each.
HasBothNotificationHooks(f) ==
  \A j \in 1..2 :
    Cardinality(At(EntriesOf(f, "Notification"), {CreateNotificationHooks[j]})) = 1

\* C28: from a settings file with no ahoy hook, as long as every install
\* and uninstall call returned Ok, Stop holds an ahoy hook exactly when
\* Notification holds the two ahoy hooks, Stop never holds more than one
\* and Notification never more than two, and is_installed is true exactly
\* when all three are there.
C28_HookArraysConsistent ==
  AhoyCount(start, "Stop") = 0 /\ AhoyCount(start, "Notification") = 0
    /\ lastOp \in {"install", "uninstall"} /\ allOk =>
    /\ AhoyCount(sfile, "Stop") <= 1
    /\ AhoyCount(sfile, "Notification") <= 2
    /\ AhoyCount(sfile, "Stop") = 1 <=> HasBothNotificationHooks(sfile)
    /\ IsInstalled(sfile) <=>
         AhoyCount(sfile, "Stop") = 1 /\ HasBothNotificationHooks(sfile)


\* The errors install returns for a settings file it cannot use.
SettingsErrors ==
  {"Err_parse", "Err_not_object", "Err_hooks", "Err_stop", "Err_notification"}

\* The number of entries in the two hook arrays of f.
EntryCount(f) == Len(EntriesOf(f, "Stop")) + Len(EntriesOf(f, "Notification"))

\* C29: an install that returns one of the settings errors has not reached
\* fs::write and leaves the settings file as it was; install reaches the
\* write only on settings that passed every check; and uninstall reaches
\* the write only with at least one hook removed from the two arrays.
C29_NoWriteOnError ==
  /\ lastOp = "install" /\ lastRes \in SettingsErrors =>
       ~wrote /\ sfile = prev
  /\ lastOp = "install" /\ wrote =>
       /\ prev.k # "garbage"
       /\ prev.k = "json" => /\ prev.v.top = "obj"
                             /\ prev.v.hooks # "other"
                             /\ prev.v.Stop.k # "other"
                             /\ prev.v.Notification.k # "other"
  /\ lastOp = "uninstall" /\ ~wrote => sfile = prev
  /\ lastOp = "uninstall" /\ wrote /\ lastRes = "Ok" =>
       EntryCount(sfile) < EntryCount(prev)

C29_Witness ==
  /\ lastOp = "install"
  /\ lastRes = "Err_notification"
  /\ prev.v.Stop = Arr(<<OtherTool>>)
  /\ sfile = prev


\* A transcript line that is an entry of type user whose first line is
\* not empty after trimming.
Qualifies(l) ==
  /\ l.k = "entry" /\ l.user
  /\ l.c.k \in {"str", "arr"}
  /\ Trim(FirstLine(TextOf(l.c))) # <<>>

Qualifying == {i \in 1..Len(transcript) : Qualifies(transcript[i])}

\* C26: extract_last_prompt returns the trimmed first line of the last
\* qualifying entry of the transcript, whatever the other lines are, and an
\* error when there is none or the file cannot be opened.
C26_LastPrompt ==
  xpc = "returned" =>
    IF openable /\ Qualifying # {}
    THEN LET i == CHOOSE j \in Qualifying : \A k \in Qualifying : k <= j
         IN prompt = [ok |-> TRUE,
                      s |-> Trim(FirstLine(TextOf(transcript[i].c)))]
    ELSE ~prompt.ok


\* What the truncation rule gives for text s: s when it has at most max
\* characters, else its first keep characters followed by "...".
Ruled(s, max, keep) ==
  IF Len(s) <= max THEN s ELSE SubSeq(s, 1, keep) \o Dots

\* C27: the description part of the body is the tool description when that
\* has at most 60 characters and otherwise its first 57 characters followed
\* by "...", never more than 60; the prompt part is the last prompt when
\* that has at most 100 characters and otherwise its first 97 characters
\* followed by "...", never more than 100.
C27_TruncationRule ==
  tpc \in {"returned", "panicked"} =>
    /\ tpc = "returned"
    /\ hasTool => part = Ruled(text, ToolDescMax, ToolDescKeep)
                  /\ Len(part) <= ToolDescMax
    /\ ~hasTool => part = Ruled(text, PromptMax, PromptKeep)
                   /\ Len(part) <= PromptMax


\* What a source gave: Some(n) when it built n, None when it failed.
Gave(b) == IF b.ok THEN Some(b.n) ELSE None

\* C30: the Notification send::run builds comes from the hook payload when
\* from_claude is set, whatever json and message are; else from the JSON
\* blob when one is given, whatever message is (a blob that does not decode
\* is an error, not a reason to use the message); else from the message and
\* the title; and with none of the three send::run returns "Either a
\* message or --json must be provided" without calling the notifier.
C30_SourcePriority ==
  spc # "start" =>
    /\ argFromClaude => built = Gave(BuildFromClaude(argTitle, stdin))
    /\ ~argFromClaude /\ argJson # None => built = Gave(FromStr(argJson[1]))
    /\ ~argFromClaude /\ argJson = None /\ argMessage # None =>
         built = Some(New(argTitle, argMessage[1]))
    /\ ~argFromClaude /\ argJson = None /\ argMessage = None =>
         /\ spc = "returned" /\ result = "Err_no_source"
         /\ built = None /\ shownWith = <<>> /\ notifierRes = "none"
    /\ result = "Err_no_source" =>
         ~argFromClaude /\ argJson = None /\ argMessage = None

C30_Witness ==
  /\ spc = "returned" /\ result = "Ok"
  /\ argFromClaude /\ argJson # None /\ argMessage # None
  /\ FromStr(argJson[1]).ok
  /\ stdin = "tool"
  /\ shownWith[1].title = argTitle
  /\ shownWith[1].body = <<"[project] tool">>

====
